---- MODULE Spec2Model ----
(***************************************************************************)
(* A model of the engram cognitive memory engine: the SQLite store         *)
(* (memories, vectors, waypoints, associations), the engine facade         *)
(* (AddWithOptions, Search, Reflect, Close), the decay sweep, and the      *)
(* background goroutines (decay worker, reflection worker, the             *)
(* reclassification consumer).                                             *)
(*                                                                         *)
(* Real numbers are fixed-point integers: saliences, decay scores,         *)
(* similarities and association weights are in thousandths (0.6 is 600),   *)
(* decay factors in ten-thousandths, time in whole days.                   *)
(***************************************************************************)
EXTENDS Integers, Sequences, FiniteSets, TLC

VARIABLES
    db,          \* the database file: tables and AUTOINCREMENT counters
    fkOn,        \* PRAGMA foreign_keys of the store's single connection
    now,         \* wall clock, in days
    results,     \* the list the last Search returned (memory ids, in order)
    resLimit,    \* the effective limit of that Search
    resLeftOut,  \* that Search's high-salience candidates, before injection
    pending,     \* results of that Search still to be reinforced
    opLog,       \* the last completed call: what it was and how it ended
    sweeps,      \* RunDecaySweep calls so far
    reclassCh,   \* LLMClassifier.reclassCh: the buffered channel's content
    chClosed,    \* reclassCh has been closed
    doneClosed,  \* LLMClassifier.done has been closed (the worker returned)
    workerPc,    \* the reclassification worker goroutine
    accepted,    \* requests the channel accepted
    processed,   \* requests whose reclassify call has returned
    dropped,     \* requests SubmitForReclassification dropped
    workerReq,   \* the request the worker is reclassifying
    panicked,    \* the runtime panic that ended the process ("": none)
    closePc,     \* the goroutine running Engram.Close
    storeOpen,   \* Store.db is open
    decayPc,     \* the decay worker goroutine
    decayCancelled,   \* cancelDecay has been called
    decayTick,        \* a tick is waiting in the decay ticker's channel
    reflectPc,   \* the reflection worker goroutine
    reflectCancelled, \* cancelReflect has been called
    reflectTick, \* a tick is waiting in the reflection ticker's channel
    addPc,       \* each caller of AddWithOptions: where it is in the call
    addLocal,    \* each caller's locals: memID, wpID, and excess of the cap
    mu,          \* Engram.mu: the caller holding it, "" when unlocked
    conn,        \* the store's one connection: the transaction holding it, or ""
    sweepPc,     \* the RunDecaySweep call in progress
    sweepPlan,   \* its updates and toDelete lists
    reflPc,      \* the Reflect call in progress
    reflQueue,   \* the reflections it still has to store
    reflLocal,   \* its locals: memID and wpID of the reflection it is storing
    reflLog,     \* for each memory Reflect stored: the salience the provider gave
    lastVerdict, \* the answer the LLM gave to the worker's last request
    call,        \* the last call a caller completed: its arguments and its return
    ops          \* calls started by the concurrent callers

storeVars == <<db, fkOn, now, results, resLimit, resLeftOut, pending, opLog, sweeps>>
lifeVars == <<reclassCh, chClosed, doneClosed, workerPc, accepted, processed,
              dropped, workerReq, panicked, closePc, storeOpen, decayPc,
              decayCancelled, decayTick, reflectPc, reflectCancelled, reflectTick>>
addVars == <<addPc, addLocal, mu>>
txVars == <<conn, sweepPc, sweepPlan>>
reflVars == <<reflPc, reflQueue, reflLocal, reflLog>>
concVars == <<addVars, txVars, reflVars, lastVerdict, call, ops>>
vars == <<storeVars, lifeVars, concVars>>

----------------------------------------------------------------------------
(* Bounds of the model *)

\* ids the memories table hands out before the model stops inserting
MaxMemIds == 3
\* the clock stops advancing here (days)
MaxDays == 30
\* the configured Config.MaxMemoriesPerUser
MaxMemoriesPerUser == 2
\* the largest limit a Search is called with
MaxLimit == 2
\* a Search is only started while no candidate was accessed this often
MaxAccess == 1
\* RunDecaySweep calls the model follows
MaxSweeps == 2
\* calls (AddWithOptions, RunDecaySweep, Reflect) the concurrent callers start
MaxConcOps == 3
\* Store methods called directly in one run
MaxStoreCalls == 2
\* signals of one sector's keyword list that a classified text contains
MaxSignals == 2
\* cap(reclassCh): 64 in the program, scaled down so that the model fills it
reclassBufferSize == 2

(* Program constants *)

salienceThreshold == 600
maxBoosts == 2
expandLimit == 20
defaultLimit == 5
defaultMaxMemories == 500
defaultSalience == 500
searchBoost == 150
defaultMinDecayScore == 10
defaultLambda == 20
assocPruneBelow == 50
addAssocWeight == 500
reflectAssocWeight == 700
reflectDefaultSalience == 700
defaultMinMemories == 5
defaultMemoryWindow == 50

Users == {"u1", "u2"}
Sectors == {"episodic", "semantic", "procedural", "emotional", "reflective"}
SectorReflective == "reflective"

\* no reclassification request
NoRequest == [memoryID |-> 0, content |-> ""]

\* one clock step of the model: a month passes
DayStep == 3 * 10

----------------------------------------------------------------------------
(* Arithmetic *)

Min(a, b) == IF a < b THEN a ELSE b
Max(a, b) == IF a > b THEN a ELSE b

\* e^-n in ten-thousandths, n a whole number
ExpNegInt(n) ==
    CASE n = 0 -> 10000 [] n = 1 -> 3679 [] n = 2 -> 1353 [] n = 3 -> 498
      [] n = 4 -> 183 [] n = 5 -> 67 [] n = 6 -> 25 [] n = 7 -> 9
      [] n = 8 -> 3 [] n = 9 -> 1 [] OTHER -> 0

\* e^-(f/1000) in ten-thousandths for 0 <= f < 1000, by its Taylor series
ExpNegFrac(f) ==
    LET t1 == (10000 * f) \div 1000
        t2 == (t1 * f) \div 2000
        t3 == (t2 * f) \div 3000
        t4 == (t3 * f) \div 4000
        t5 == (t4 * f) \div 5000
        t6 == (t5 * f) \div 6000
    IN  10000 - t1 + t2 - t3 + t4 - t5 + t6

\* math.Exp(-x) for x >= 0 given in thousandths; the result in ten-thousandths
ExpNeg(xm) == (ExpNegInt(xm \div 1000) * ExpNegFrac(xm % 1000)) \div 10000

\* DefaultDecayRates, per day, in thousandths
DefaultDecayRates ==
    [s \in Sectors |->
        CASE s = "episodic" -> 5 [] s = "semantic" -> 20 [] s = "procedural" -> 20
          [] s = "emotional" -> 5 [] OTHER -> 50]

\* DecayFactor: exp(-lambda * days / (salience + 0.1)), in ten-thousandths.
\* The model only reaches saliences above -0.1, where the exponent is <= 0.
DecayFactor(lambda, days, salience) ==
    ExpNeg((1000 * lambda * days) \div (salience + 100))

\* the sweep's newScore := salience * exp(-lambda*days/(salience+0.1))
NewScore(salience, lambda, days) ==
    (salience * DecayFactor(lambda, days, salience)) \div 10000

----------------------------------------------------------------------------
(* The store: one SQLite file behind a single connection.                  *)
(*   db.mem    memories, a function from id to row                         *)
(*   db.vec    vectors, a set of rows [memory_id, sector, vector]          *)
(*   db.wp     waypoints, a function from id to entity_text (UNIQUE)       *)
(*   db.assoc  associations, a set of rows [memory_id, waypoint_id, weight]*)
(*             with (memory_id, waypoint_id) unique                        *)
(*   db.nextMem, db.nextWp   the AUTOINCREMENT counters                    *)
(*   db.version              MAX(schema_version.version), 0 when empty     *)

EmptyDb ==
    [mem |-> <<>>, vec |-> {}, wp |-> <<>>, assoc |-> {},
     nextMem |-> 1, nextWp |-> 1, version |-> 0]

MemIds(d) == DOMAIN d.mem
WpIds(d) == DOMAIN d.wp

\* Store.migrate: the version-1 block creates the tables and, as its last
\* statement, turns foreign keys on for the connection; the version-2 block
\* adds the temporal columns. Returns the database and the connection's
\* foreign_keys pragma (off on a fresh connection).
migrate(d) ==
    [db |-> [d EXCEPT !.version = Max(d.version, 2)],
     fk |-> (d.version < 1)]

\* NewStore: open the file, one connection, migrate
NewStore(d) == migrate(d)

\* memories.id as INTEGER PRIMARY KEY without AUTOINCREMENT: a new row gets
\* the largest id in the table plus one
InsertMemoryReusesRowid(d, m, t) ==
    LET id == IF MemIds(d) = {} THEN 1
              ELSE 1 + (CHOOSE i \in MemIds(d) : \A j \in MemIds(d) : j <= i)
    IN  [d EXCEPT
            !.mem = d.mem @@ (id :>
                      [user |-> m.user, content |-> m.content, sector |-> m.sector,
                       salience |-> m.salience, decay |-> m.salience,
                       last |-> t, created |-> t, access |-> 0]),
            !.nextMem = d.nextMem + 1]

\* Store.InsertMemory: decay_score starts as salience; last_accessed_at,
\* created_at and access_count take their column defaults
InsertMemory(d, m, t) ==
    [d EXCEPT
        !.mem = d.mem @@ (d.nextMem :>
                  [user |-> m.user, content |-> m.content, sector |-> m.sector,
                   salience |-> m.salience, decay |-> m.salience,
                   last |-> t, created |-> t, access |-> 0]),
        !.nextMem = d.nextMem + 1]

\* Store.InsertVector: with foreign keys on, the row needs its memory
InsertVectorFails(d, fk, mid) == fk /\ mid \notin MemIds(d)

InsertVector(d, fk, mid, sector, vec) ==
    IF InsertVectorFails(d, fk, mid) THEN d
    ELSE [d EXCEPT !.vec = d.vec \cup
              {[memory_id |-> mid, sector |-> sector, vector |-> vec]}]

\* Store.UpsertWaypoint: INSERT ... ON CONFLICT(entity_text), then SELECT id
WaypointId(d, text) ==
    IF \E w \in WpIds(d) : d.wp[w] = text
    THEN CHOOSE w \in WpIds(d) : d.wp[w] = text
    ELSE d.nextWp

UpsertWaypoint(d, text) ==
    IF \E w \in WpIds(d) : d.wp[w] = text THEN d
    ELSE [d EXCEPT !.wp = d.wp @@ (d.nextWp :> text), !.nextWp = d.nextWp + 1]

\* Store.InsertAssociation: ON CONFLICT(memory_id, waypoint_id) the weight
\* becomes MAX(weight, excluded.weight); with foreign keys on, both ends
\* must exist
InsertAssociationFails(d, fk, mid, wid) ==
    fk /\ (mid \notin MemIds(d) \/ wid \notin WpIds(d))

\* ON CONFLICT ... DO UPDATE SET weight = excluded.weight: the last weight wins
InsertAssociationOverwrites(d, fk, mid, wid, weight) ==
    IF InsertAssociationFails(d, fk, mid, wid) THEN d
    ELSE [d EXCEPT !.assoc =
              {a \in d.assoc : ~(a.memory_id = mid /\ a.waypoint_id = wid)} \cup
              {[memory_id |-> mid, waypoint_id |-> wid, weight |-> weight]}]

InsertAssociation(d, fk, mid, wid, weight) ==
    IF InsertAssociationFails(d, fk, mid, wid) THEN d
    ELSE LET old == {a \in d.assoc : a.memory_id = mid /\ a.waypoint_id = wid}
             w == IF old = {} THEN weight
                  ELSE Max((CHOOSE a \in old : TRUE).weight, weight)
         IN  [d EXCEPT !.assoc = (d.assoc \ old) \cup
                  {[memory_id |-> mid, waypoint_id |-> wid, weight |-> w]}]

\* DELETE FROM memories WHERE id IN ids: ON DELETE CASCADE reaches the
\* vectors and the associations only while foreign keys are on
DeleteMemories(d, fk, ids) ==
    [d EXCEPT
        !.mem = [i \in MemIds(d) \ ids |-> d.mem[i]],
        !.vec = IF fk THEN {v \in d.vec : v.memory_id \notin ids} ELSE d.vec,
        !.assoc = IF fk THEN {a \in d.assoc : a.memory_id \notin ids} ELSE d.assoc]

\* DELETE FROM waypoints WHERE id IN ids, with the same cascade
DeleteWaypoints(d, fk, ids) ==
    [d EXCEPT
        !.wp = [w \in WpIds(d) \ ids |-> d.wp[w]],
        !.assoc = IF fk THEN {a \in d.assoc : a.waypoint_id \notin ids} ELSE d.assoc]

\* the UPDATE without its MIN(..., 1.0)
ReinforceSalienceUncapped(d, mid, boost, t) ==
    IF mid \notin MemIds(d) THEN d
    ELSE [d EXCEPT !.mem[mid] =
             [@ EXCEPT !.salience = @ + boost,
                       !.decay = @ + boost,
                       !.last = t,
                       !.access = @ + 1]]

\* the UPDATE that boosts decay_score and leaves salience as it is
ReinforceSalienceDecayOnly(d, mid, boost, t) ==
    IF mid \notin MemIds(d) THEN d
    ELSE [d EXCEPT !.mem[mid] =
             [@ EXCEPT !.decay = Min(@ + boost, 1000),
                       !.last = t,
                       !.access = @ + 1]]

\* Store.ReinforceSalience: an UPDATE ... WHERE id = ?; no row, no change
ReinforceSalience(d, mid, boost, t) ==
    IF mid \notin MemIds(d) THEN d
    ELSE [d EXCEPT !.mem[mid] =
             [@ EXCEPT !.salience = Min(@ + boost, 1000),
                       !.decay = Min(@ + boost, 1000),
                       !.last = t,
                       !.access = @ + 1]]

UserMemIds(d, u) == {i \in MemIds(d) : d.mem[i].user = u}

\* Store.EnforceMemoryLimit: the sets of rows
\*   SELECT id ... ORDER BY decay_score ASC, created_at ASC LIMIT excess
\* may return; SQL leaves the order of equal keys open
\* ORDER BY decay_score ASC, created_at DESC: ties go to the newest row
LimitBeforeNewest(d, i, j) ==
    \/ d.mem[i].decay < d.mem[j].decay
    \/ d.mem[i].decay = d.mem[j].decay /\ d.mem[i].created >= d.mem[j].created

LimitBefore(d, i, j) ==
    \/ d.mem[i].decay < d.mem[j].decay
    \/ d.mem[i].decay = d.mem[j].decay /\ d.mem[i].created <= d.mem[j].created

\* the row sets the DELETE's subquery (... LIMIT excess) may select
LimitRows(d, u, excess) ==
    LET mine == UserMemIds(d, u)
    IN  {D \in SUBSET mine :
            /\ Cardinality(D) = Min(excess, Cardinality(mine))
            /\ \A i \in D, j \in mine \ D : LimitBefore(d, i, j)}

EnforceMemoryLimitDeletes(d, u, maxCount) ==
    LET count == Cardinality(UserMemIds(d, u))
    IN  IF count <= maxCount THEN {{}}
        ELSE LimitRows(d, u, count - maxCount)

\* UPDATE associations SET weight = weight * 0.995
DecayAssociations(d) ==
    [d EXCEPT !.assoc =
        {[a EXCEPT !.weight = (a.weight * 995) \div 1000] : a \in d.assoc}]

\* DELETE FROM associations WHERE weight < 0.05
PruneAssociations(d) ==
    [d EXCEPT !.assoc = {a \in d.assoc : a.weight >= assocPruneBelow}]

\* DELETE FROM waypoints WHERE id NOT IN (SELECT DISTINCT waypoint_id FROM associations)
OrphanWaypoints(d) ==
    {w \in WpIds(d) : \A a \in d.assoc : a.waypoint_id # w}

DeleteOrphanWaypoints(d, fk) == DeleteWaypoints(d, fk, OrphanWaypoints(d))

\* The statements of one sweep, and the ways one of them can fail. A failure
\* of "update" or "delete" is the failure of the statements for fault.ids.
SweepSteps ==
    {"begin", "query", "prepare", "update", "delete", "decay", "prune",
     "orphan", "commit"}
NoFault == [step |-> "none", ids |-> {}]

\* the sweep's lambda := decayRates[sector], 0.02 when the map has none
Lambda(rates, sector) == IF rates[sector] = 0 THEN defaultLambda ELSE rates[sector]

SweepScore(d, rates, t, i) ==
    NewScore(d.mem[i].salience, Lambda(rates, d.mem[i].sector), t - d.mem[i].last)

SweepToDelete(d, minScore, rates, t) ==
    {i \in MemIds(d) : SweepScore(d, rates, t, i) < minScore}

SweepFaults(d, minScore, rates, t) ==
    LET del == SweepToDelete(d, minScore, rates, t)
        upd == MemIds(d) \ del
    IN  {NoFault}
        \cup {[step |-> st, ids |-> {}] : st \in SweepSteps \ {"update", "delete"}}
        \cup {[step |-> "update", ids |-> {i}] : i \in upd}
        \cup {[step |-> "delete", ids |-> {i}] : i \in del}

\* the UPDATE loop: stmt.Exec(u.score, u.id), its error dropped
SweepApplyUpdates(d, upd, rates, t) ==
    [d EXCEPT !.mem =
        [i \in MemIds(d) |->
            IF i \in upd THEN [d.mem[i] EXCEPT !.decay = SweepScore(d, rates, t, i)]
            ELSE d.mem[i]]]

\* Store.RunDecaySweep(minScore, decayRates) at time t, with one statement
\* (or none) failing. Begin, the SELECT, Prepare and Commit return their
\* error, and the deferred Rollback undoes the transaction; the error of
\* every other statement is dropped and the sweep goes on to Commit.
RunDecaySweep(d, fk, minScore, rates, t, fault) ==
    LET del == SweepToDelete(d, minScore, rates, t)
        upd == MemIds(d) \ del
        d1 == SweepApplyUpdates(d, IF fault.step = "update" THEN upd \ fault.ids ELSE upd,
                                rates, t)
        d2 == DeleteMemories(d1, fk, IF fault.step = "delete" THEN del \ fault.ids ELSE del)
        d3 == IF fault.step = "decay" THEN d2 ELSE DecayAssociations(d2)
        d4 == IF fault.step = "prune" THEN d3 ELSE PruneAssociations(d3)
        d5 == IF fault.step = "orphan" THEN d4 ELSE DeleteOrphanWaypoints(d4, fk)
    IN  IF fault.step \in {"begin", "query", "prepare", "commit"}
        THEN [db |-> d, err |-> TRUE, updated |-> 0, deleted |-> 0]
        ELSE [db |-> d5, err |-> FALSE,
              updated |-> Cardinality(upd), deleted |-> Cardinality(del)]

----------------------------------------------------------------------------
(* Scoring *)

RECURSIVE Dot(_, _)
Dot(a, b) == IF a = <<>> THEN 0 ELSE Head(a) * Head(b) + Dot(Tail(a), Tail(b))

RECURSIVE ISqrtIn(_, _, _)
\* the largest r in lo..hi with r*r <= n
ISqrtIn(n, lo, hi) ==
    IF lo >= hi THEN lo
    ELSE LET mid == (lo + hi + 1) \div 2
         IN  IF mid * mid <= n THEN ISqrtIn(n, mid, hi) ELSE ISqrtIn(n, lo, mid - 1)

ISqrt(n) == ISqrtIn(n, 0, 40000)

\* CosineSimilarity, in thousandths: 0 for a length mismatch, an empty vector
\* or a zero norm
CosineSimilarity(a, b) ==
    IF Len(a) # Len(b) \/ Len(a) = 0 THEN 0
    ELSE LET normA == Dot(a, a)
             normB == Dot(b, b)
         IN  IF normA = 0 \/ normB = 0 THEN 0
             ELSE (Dot(a, b) * 100000) \div ISqrt(normA * normB * 10000)

\* DefaultScoringWeights, in thousandths
DefaultScoringWeights ==
    [Similarity |-> 600, Salience |-> 200, Recency |-> 100, LinkWeight |-> 100]

\* DefaultSectorWeights, in tenths
DefaultSectorWeights == [s \in Sectors |-> 10]

\* CompositeScore, in units of 10^-7:
\*   (w.Similarity*similarity + w.Salience*salience + w.Recency*recency
\*      + w.LinkWeight*linkWeight) * sectorWeight,  recency = exp(-0.02*days)
CompositeScore(similarity, salience, days, linkWeight, sectorWeight, w) ==
    LET recency == ExpNeg(20 * days) \div 10
        raw == w.Similarity * similarity + w.Salience * salience
               + w.Recency * recency + w.LinkWeight * linkWeight
    IN  raw * sectorWeight

----------------------------------------------------------------------------
(* The providers. A text is one of a few contents; the embedder maps each  *)
(* to a fixed vector, the heuristic classifier to a fixed sector.          *)

\* EmbeddingProvider.Embed, when it succeeds. Against the vector of "c1",
\* "c2" has cosine 0, "c3" 0.707, "c4" 17/20 = 0.85 exactly, "c5" 0.863
Embed(c) ==
    CASE c = "c1" -> <<1, 0, 0, 0, 0>>
      [] c = "c2" -> <<0, 1, 0, 0, 0>>
      [] c = "c4" -> <<17, 10, 3, 1, 1>>
      [] c = "c5" -> <<18, 10, 3, 1, 1>>
      [] OTHER -> <<1, 1, 0, 0, 0>>

\* SectorClassifier.Classify of the heuristic classifier
Classify(c) ==
    CASE c = "c1" -> "semantic" [] c = "c2" -> "episodic" [] OTHER -> "semantic"

----------------------------------------------------------------------------
(* Search *)

\* the sequences that list every element of S once
Perms(S) ==
    {p \in [1..Cardinality(S) -> S] : \A i, j \in 1..Cardinality(S) : p[i] = p[j] => i = j}

\* what sort.Slice(less: key[i] > key[j]) can leave: every order of S that
\* is descending in key; the order of equal keys is open (the sort is not stable)
RECURSIVE SortedDesc(_, _)
SortedDesc(S, key) ==
    IF S = {} THEN {<<>>}
    ELSE UNION {{<<m>> \o rest : rest \in SortedDesc(S \ {m}, key)} :
                   m \in {x \in S : \A y \in S : key[x] >= key[y]}}

Prefix(seq, n) == SubSeq(seq, 1, Min(n, Len(seq)))
Range(seq) == {seq[i] : i \in 1..Len(seq)}

\* the vector LEFT JOINed to memory i, or <<>> when it has none
HasVector(d, i) == \E v \in d.vec : v.memory_id = i
VectorOf(d, i) == (CHOOSE v \in d.vec : v.memory_id = i).vector

\* Store.GetMemoriesWithVectors(userID), less the rows without a vector
\* (the `if c.Vector == nil { continue }` of Search)
ScoredCandidates(d, u) == {i \in UserMemIds(d, u) : HasVector(d, i)}

\* the waypoint ids the associations table names
WpIdsNamed(d) == {a.waypoint_id : a \in d.assoc}

\* Store.GetAssociatedWaypointIDs
GetAssociatedWaypointIDs(d, mid) ==
    {a.waypoint_id : a \in {x \in d.assoc : x.memory_id = mid}}

\* the query without its `AND m.user_id = ?`
GetMemoriesByWaypointOfAnyUser(d, wid, u, excludeIDs) ==
    {a.memory_id : a \in {x \in d.assoc :
        /\ x.waypoint_id = wid
        /\ x.memory_id \in MemIds(d)
        /\ x.memory_id \notin excludeIDs}}

\* Store.GetMemoriesByWaypoint: JOIN memories, so only rows whose memory exists
GetMemoriesByWaypoint(d, wid, u, excludeIDs) ==
    {a.memory_id : a \in {x \in d.assoc :
        /\ x.waypoint_id = wid
        /\ x.memory_id \in UserMemIds(d, u)
        /\ x.memory_id \notin excludeIDs}}

\* the weight ExpandViaWaypoints propagates per hop
linkHopWeight == 800

\* linkWeights[id] after the n-th row that names id:
\* added and kept on top of what the map holds
RECURSIVE PropagateLinkWeightAdds(_, _)
PropagateLinkWeightAdds(w, n) ==
    IF n = 0 THEN w ELSE PropagateLinkWeightAdds(w + linkHopWeight, n - 1)

\* linkWeights[id] after the n-th row that names id:
\* `if w := 0.8; w > linkWeights[lm.ID] { linkWeights[lm.ID] = w }`
RECURSIVE PropagateLinkWeight(_, _)
PropagateLinkWeight(w, n) ==
    IF n = 0 THEN w
    ELSE PropagateLinkWeight(IF linkHopWeight > w THEN linkHopWeight ELSE w, n - 1)

\* ExpandViaWaypoints: the map from memory id to link weight. The loops
\* visit every (seed, waypoint of the seed, memory at that waypoint); a
\* memory the loops never reach has no entry.
ExpandViaWaypoints(d, seeds, u) ==
    LET rows == {<<m, w, lm>> \in seeds \X WpIdsNamed(d) \X MemIds(d) :
                    /\ w \in GetAssociatedWaypointIDs(d, m)
                    /\ lm \in GetMemoriesByWaypoint(d, w, u, seeds)}
    IN  [i \in {r[3] : r \in rows} |->
            PropagateLinkWeight(0, Cardinality({r \in rows : r[3] = i}))]

\* linkWeights[sc.ID]: 0 when the map has no entry
LinkWeight(linked, i) == IF i \in DOMAIN linked THEN linked[i] ELSE 0

\* the limit a Search works with
EffectiveLimit(limit) == IF limit <= 0 THEN defaultLimit ELSE limit

\* sectorWeight := weights[sector], 1.0 when that is 0
SectorWeight(weights, sector) == IF weights[sector] = 0 THEN 10 ELSE weights[sector]

\* the injection loop of guaranteeHighSalience over the sorted candidates
\* guaranteeHighSalience's injection loop without the len(results) >= limit
\* branch: every candidate is appended
RECURSIVE InjectAppend(_, _, _, _)
InjectAppend(res, cands, injected, limit) ==
    IF cands = <<>> \/ injected >= maxBoosts THEN res
    ELSE InjectAppend(Append(res, Head(cands)), Tail(cands), injected + 1, limit)

RECURSIVE Inject(_, _, _, _)
Inject(res, cands, injected, limit) ==
    IF cands = <<>> \/ injected >= maxBoosts THEN res
    ELSE Inject(IF Len(res) >= limit
                THEN [res EXCEPT ![Len(res)] = Head(cands)]
                ELSE Append(res, Head(cands)),
                Tail(cands), injected + 1, limit)

\* guaranteeHighSalience without the inResults test: every scored memory of
\* high salience is a candidate
HighSalienceAmongAll(d, scoredIds, res) ==
    {i \in scoredIds : d.mem[i].salience >= salienceThreshold}

\* guaranteeHighSalience: the candidates are the scored memories with
\* salience >= 0.6 that are not in the results
HighSalienceLeftOut(d, scoredIds, res) ==
    {i \in scoredIds \ Range(res) : d.mem[i].salience >= salienceThreshold}

\* Steps 3-6b, which Search and SearchWithOptions share: rank the scored
\* candidates cands of database d at time t, keep the top limit, inject.
\* Every outcome [results, leftOut, ranked, linked], ids in the returned
\* order; ranked is the top limit before the injection, linked the link
\* weights of step 4.
RankAndGuarantee(d, t, q, u, limit, weights, cands) ==
    UNION {
      \* the seeds: the first expandLimit of the candidates sorted by similarity
      UNION {
        UNION {
          UNION {
            UNION {
              {[results |-> Inject(top, hs, 0, limit), leftOut |-> left, ranked |-> top,
                linked |-> linked] :
                  hs \in SortedDesc(left, [i \in left |-> d.mem[i].salience])}
              : left \in {HighSalienceLeftOut(d, cands, top)}}
            : top \in {Prefix(ranked, limit) : ranked \in SortedDesc(cands, comp)}}
          : comp \in {[i \in cands |->
                         CompositeScore(sim[i], d.mem[i].decay, t - d.mem[i].last,
                                        LinkWeight(linked, i),
                                        SectorWeight(weights, d.mem[i].sector),
                                        DefaultScoringWeights)]}}
        : linked \in {ExpandViaWaypoints(d, Range(Prefix(order, expandLimit)), u) :
                         order \in SortedDesc(cands, sim)}}
      : sim \in {[i \in cands |-> CosineSimilarity(Embed(q), VectorOf(d, i))]}}

\* Every outcome of steps 1-6b of Search(query, userID, limit, weights)
SearchOutcomes(d, t, q, u, limit0, weights) ==
    RankAndGuarantee(d, t, q, u, EffectiveLimit(limit0), weights, ScoredCandidates(d, u))

NoTime == 0 - 1

\* the temporal and sector filters of SearchWithOptions (After, Before: a day,
\* or NoTime for nil; Sectors: empty for no filter)
FilteredCandidates(d, opts) ==
    {i \in ScoredCandidates(d, opts.user) :
        /\ opts.after = NoTime \/ d.mem[i].created >= opts.after
        /\ opts.before = NoTime \/ d.mem[i].created <= opts.before
        /\ opts.sectors = {} \/ d.mem[i].sector \in opts.sectors}

\* Every outcome of SearchWithOptions(opts) up to its reinforcement loop
SearchWithOptionsOutcomes(d, t, opts, weights) ==
    RankAndGuarantee(d, t, opts.query, opts.user, EffectiveLimit(opts.limit), weights,
                     FilteredCandidates(d, opts))

----------------------------------------------------------------------------
(* The write paths of the engine, as functions of the database *)

\* the entity loop of AddWithOptions and Reflect: UpsertWaypoint, then
\* InsertAssociation with its error dropped
RECURSIVE AssociateEntities(_, _, _, _, _)
AssociateEntities(d, fk, mid, ents, weight) ==
    IF ents = <<>> THEN d
    ELSE LET d1 == UpsertWaypoint(d, Head(ents))
             wid == WaypointId(d, Head(ents))
         IN  AssociateEntities(InsertAssociation(d1, fk, mid, wid, weight),
                               fk, mid, Tail(ents), weight)

\* step 5 of AddWithOptions: opts.Salience, 0.5 when it is 0
ResolveSalience(salience) == IF salience = 0 THEN defaultSalience ELSE salience

\* steps 2-7 of AddWithOptions with the vector row labelled by
\* opts.SectorHint instead of the resolved sector
AddVectorWithHint(d, fk, t, opts) ==
    LET sector == IF opts.hint = "" THEN Classify(opts.content) ELSE opts.hint
        mid == d.nextMem
        d1 == InsertMemory(d, [user |-> opts.user, content |-> opts.content,
                               sector |-> sector,
                               salience |-> ResolveSalience(opts.salience)], t)
    IN  IF opts.embedOk THEN InsertVector(d1, fk, mid, opts.hint, Embed(opts.content))
        ELSE d1

\* steps 2-7 of AddWithOptions: the memory row and, if the embedding
\* succeeded, its vector row
AddMemoryAndVector(d, fk, t, opts) ==
    LET sector == IF opts.hint = "" THEN Classify(opts.content) ELSE opts.hint
        mid == d.nextMem
        d1 == InsertMemory(d, [user |-> opts.user, content |-> opts.content,
                               sector |-> sector,
                               salience |-> ResolveSalience(opts.salience)], t)
    IN  IF opts.embedOk THEN InsertVector(d1, fk, mid, sector, Embed(opts.content))
        ELSE d1

\* steps 2-8 of AddWithOptions
AddRows(d, fk, t, opts) ==
    AssociateEntities(AddMemoryAndVector(d, fk, t, opts), fk, d.nextMem,
                      opts.entities, addAssocWeight)

\* AddWithOptions without its first test: an empty UserID is stored like any
AddOutcomesAnyUser(d, fk, t, opts, cap) ==
    LET d1 == AddRows(d, fk, t, opts)
    IN  {DeleteMemories(d1, fk, D) : D \in EnforceMemoryLimitDeletes(d1, opts.user, cap)}

\* Engram.AddWithOptions when no step panics: every database it can leave.
\* Step 9 enforces the per-user cap.
AddOutcomes(d, fk, t, opts, cap) ==
    IF opts.user = "" THEN {d}
    ELSE LET d1 == AddRows(d, fk, t, opts)
         IN  {DeleteMemories(d1, fk, D) : D \in EnforceMemoryLimitDeletes(d1, opts.user, cap)}

\* Store.GetRecentMemories(userID, limit, sectors): the row sets
\* ORDER BY created_at DESC LIMIT ? may return (an empty sectors list is no filter)
GetRecentMemories(d, u, limit, sectors) ==
    LET mine == {i \in UserMemIds(d, u) : sectors = {} \/ d.mem[i].sector \in sectors}
    IN  {R \in SUBSET mine :
            /\ Cardinality(R) = Min(limit, Cardinality(mine))
            /\ \A i \in R, j \in mine \ R : d.mem[i].created >= d.mem[j].created}

\* a clamp into [0.7, 1.0]: every salience below 0.7 becomes 0.7
ClampReflectionToFloor(salience) ==
    IF salience < reflectDefaultSalience THEN reflectDefaultSalience
    ELSE IF salience > 1000 THEN 1000 ELSE salience

\* step 5 of Reflect: `if salience <= 0 { 0.7 }; if salience > 1.0 { 1.0 }`
ClampReflectionSalience(salience) ==
    IF salience <= 0 THEN reflectDefaultSalience
    ELSE IF salience > 1000 THEN 1000 ELSE salience

\* deduplicateReflections: the existing reflective vectors are loaded once;
\* a candidate whose embedding fails is kept
duplicateThreshold == 850

ReflectiveVectors(d, u) ==
    {VectorOf(d, i) : i \in {j \in ScoredCandidates(d, u) : d.mem[j].sector = SectorReflective}}

\* the comparison with the threshold itself counted as a duplicate
IsDuplicateAtThreshold(existing, ref) ==
    /\ ref.embedOk
    /\ \E ev \in existing : CosineSimilarity(Embed(ref.content), ev) >= duplicateThreshold

IsDuplicate(existing, ref) ==
    /\ ref.embedOk
    /\ \E ev \in existing : CosineSimilarity(Embed(ref.content), ev) > duplicateThreshold

\* deduplicateReflections returning the candidates as they came, as it does
\* without an embedder
deduplicateReflectionsKeepsAll(d, u, reflections) == reflections

deduplicateReflections(d, u, reflections) ==
    LET existing == ReflectiveVectors(d, u)
    IN  SelectSeq(reflections, LAMBDA ref : ~IsDuplicate(existing, ref))

\* the store loop of Reflect; no cap is enforced here
RECURSIVE StoreReflections(_, _, _, _, _)
StoreReflections(d, fk, t, u, refs) ==
    IF refs = <<>> THEN d
    ELSE LET ref == Head(refs)
             mid == d.nextMem
             d1 == InsertMemory(d, [user |-> u, content |-> ref.content,
                                    sector |-> SectorReflective,
                                    salience |-> ClampReflectionSalience(ref.salience)], t)
             d2 == IF ref.embedOk
                   THEN InsertVector(d1, fk, mid, SectorReflective, Embed(ref.content))
                   ELSE d1
             d3 == AssociateEntities(d2, fk, mid, ref.entities, reflectAssocWeight)
         IN  StoreReflections(d3, fk, t, u, Tail(refs))

\* Reflect without step 2's second test: the threshold is compared with the
\* loaded memories only, reflections among them included
ReflectCountsReflections(d, fk, t, opts, provider) ==
    LET window == IF opts.window <= 0 THEN defaultMemoryWindow ELSE opts.window
        minMem == IF opts.minMemories <= 0 THEN defaultMinMemories ELSE opts.minMemories
        nothing == [db |-> d, err |-> FALSE, called |-> FALSE, stored |-> 0,
                    unique |-> <<>>, input |-> {}]
    IN  {LET input == {i \in recent : d.mem[i].sector # SectorReflective}
             unique == deduplicateReflections(d, opts.user, provider.reflections)
         IN  IF Cardinality(recent) < minMem THEN nothing
             ELSE IF provider.err
             THEN [nothing EXCEPT !.err = TRUE, !.called = TRUE, !.input = input]
             ELSE [db |-> StoreReflections(d, fk, t, opts.user, unique),
                   err |-> FALSE, called |-> TRUE, stored |-> Len(unique),
                   unique |-> unique, input |-> input]
         : recent \in GetRecentMemories(d, opts.user, window, opts.sectors)}

\* Reflect without step 2: the provider is given every loaded memory
ReflectPassesReflections(d, fk, t, opts, provider) ==
    LET window == IF opts.window <= 0 THEN defaultMemoryWindow ELSE opts.window
        minMem == IF opts.minMemories <= 0 THEN defaultMinMemories ELSE opts.minMemories
        nothing == [db |-> d, err |-> FALSE, called |-> FALSE, stored |-> 0,
                    unique |-> <<>>, input |-> {}]
    IN  {LET unique == deduplicateReflections(d, opts.user, provider.reflections)
         IN  IF Cardinality(recent) < minMem THEN nothing
             ELSE IF provider.err
             THEN [nothing EXCEPT !.err = TRUE, !.called = TRUE, !.input = recent]
             ELSE [db |-> StoreReflections(d, fk, t, opts.user, unique),
                   err |-> FALSE, called |-> TRUE, stored |-> Len(unique),
                   unique |-> unique, input |-> recent]
         : recent \in GetRecentMemories(d, opts.user, window, opts.sectors)}

\* Engram.Reflect(opts) with a reflection provider and an embedder configured;
\* provider is what the provider call returns: [err, reflections].
\* Every outcome: [db, err, called, stored, unique, input], unique the
\* reflections it stored, input the memories it passed to the provider.
ReflectOutcomes(d, fk, t, opts, provider) ==
    LET window == IF opts.window <= 0 THEN defaultMemoryWindow ELSE opts.window
        minMem == IF opts.minMemories <= 0 THEN defaultMinMemories ELSE opts.minMemories
        nothing == [db |-> d, err |-> FALSE, called |-> FALSE, stored |-> 0,
                    unique |-> <<>>, input |-> {}]
    IN  {LET input == {i \in recent : d.mem[i].sector # SectorReflective}
             unique == deduplicateReflections(d, opts.user, provider.reflections)
         IN  IF Cardinality(recent) < minMem \/ Cardinality(input) < minMem THEN nothing
             ELSE IF provider.err
             THEN [nothing EXCEPT !.err = TRUE, !.called = TRUE, !.input = input]
             ELSE [db |-> StoreReflections(d, fk, t, opts.user, unique),
                   err |-> FALSE, called |-> TRUE, stored |-> Len(unique),
                   unique |-> unique, input |-> input]
         : recent \in GetRecentMemories(d, opts.user, window, opts.sectors)}

----------------------------------------------------------------------------
(* The engine as its callers see it: one action per completed call.        *)
(* The store's single connection runs one statement, or one transaction,   *)
(* at a time.                                                              *)

\* what callers pass as AddOptions.Salience: unset, under the sweep's
\* threshold, high, and above the documented range
SalienceInputs == {0, 5, 1500}
\* what the reflection provider returns as Reflection.Salience
ReflectionSaliences == {0, 1500}
LimitInputs == 0..MaxLimit

\* op: the call; err: it returned an error; failed: one of its statements
\* failed; changed: it left the database different
Log(op, err, failed, changed) ==
    [op |-> op, err |-> err, failed |-> failed, changed |-> changed]
NoOp == Log("none", FALSE, FALSE, FALSE)

InitStore ==
    /\ db = NewStore(EmptyDb).db
    /\ fkOn = NewStore(EmptyDb).fk
    /\ now = 0
    /\ results = <<>>
    /\ resLimit = 0
    /\ resLeftOut = {}
    /\ pending = <<>>
    /\ opLog = NoOp
    /\ sweeps = 0

\* Init of an engine with the heuristic classifier and no reflection worker
InitLife ==
    /\ reclassCh = <<>>
    /\ chClosed = FALSE
    /\ doneClosed = FALSE
    /\ workerPc = "recv"
    /\ accepted = {}
    /\ processed = {}
    /\ dropped = {}
    /\ workerReq = NoRequest
    /\ panicked = ""
    /\ closePc = "none"
    /\ storeOpen = TRUE
    /\ decayPc = "select"
    /\ decayCancelled = FALSE
    /\ decayTick = FALSE
    /\ reflectPc = "select"
    /\ reflectCancelled = FALSE
    /\ reflectTick = FALSE

\* the callers of AddWithOptions
\* no call has returned yet
NoCall == [op |-> "none"]

Callers == {"a1", "a2"}

\* locals of a call before it has set them
NoLocals == [memID |-> 0, wpID |-> 0, excess |-> 0]

\* a sweep's locals before it has set them: the database when its
\* transaction began, the updates (id to score) and the toDelete list
NoPlan == [snap |-> EmptyDb, scores |-> <<>>, del |-> {}]

\* no call of AddWithOptions, RunDecaySweep or Reflect is in progress
InitConc ==
    /\ addPc = [c \in Callers |-> "idle"]
    /\ addLocal = [c \in Callers |-> NoLocals]
    /\ mu = ""
    /\ conn = ""
    /\ sweepPc = "idle"
    /\ sweepPlan = NoPlan
    /\ reflPc = "idle"
    /\ reflQueue = [user |-> "", refs |-> <<>>]
    /\ reflLocal = NoLocals
    /\ reflLog = {}
    /\ lastVerdict = ""
    /\ call = NoCall
    /\ ops = 0

Init == InitStore /\ InitLife /\ InitConc

\* a pool that always has a connection to hand out
ConnAlwaysFree == TRUE

\* db.SetMaxOpenConns(1): a statement gets the connection only while no
\* transaction holds it
ConnFree == conn = ""

\* SubmitForReclassification as a plain send without the default branch:
\* the request always goes into the queue
SubmitAlwaysSent(ch, closed) ==
    IF closed THEN "panic" ELSE "sent"

\* LLMClassifier.SubmitForReclassification on channel content ch: a send on
\* a closed channel panics, a full buffer takes the select's default branch
SubmitOutcome(ch, closed) ==
    IF closed THEN "panic"
    ELSE IF Len(ch) < reclassBufferSize THEN "sent" ELSE "dropped"

\* Engram.AddWithOptions; llm: the configured classifier is the *LLMClassifier,
\* so that step 7b submits the new memory for reclassification
AddWithOptions(u, c, sal, embedOk, ents, cap, llm) ==
    LET opts == [user |-> u, content |-> c, hint |-> "", salience |-> sal,
                 embedOk |-> embedOk, entities |-> ents]
        req == [memoryID |-> db.nextMem, content |-> c]
        submit == IF llm THEN SubmitOutcome(reclassCh, chClosed) ELSE "none"
    IN  /\ panicked = ""
        /\ pending = <<>>
        /\ db.nextMem <= MaxMemIds
        /\ IF u = ""
           THEN \* `if opts.UserID == "" { return 0, nil }`
                /\ opLog' = Log("add", FALSE, FALSE, FALSE)
                /\ UNCHANGED <<db, reclassCh, accepted, dropped, panicked>>
           ELSE IF ~storeOpen
           THEN \* InsertMemory fails on the closed database: return 0, err
                /\ opLog' = Log("add", TRUE, FALSE, FALSE)
                /\ UNCHANGED <<db, reclassCh, accepted, dropped, panicked>>
           ELSE IF submit = "panic"
           THEN \* the rows of steps 6 and 7 are stored, the goroutine dies in 7b
                /\ db' = AddMemoryAndVector(db, fkOn, now, opts)
                /\ panicked' = "send on closed channel"
                /\ UNCHANGED <<opLog, reclassCh, accepted, dropped>>
           ELSE /\ \E d \in AddOutcomes(db, fkOn, now, opts, cap) : db' = d
                /\ opLog' = Log("add", FALSE, FALSE, TRUE)
                /\ reclassCh' = IF submit = "sent" THEN Append(reclassCh, req) ELSE reclassCh
                /\ accepted' = IF submit = "sent" THEN accepted \cup {req} ELSE accepted
                /\ dropped' = IF submit = "dropped" THEN dropped \cup {req} ELSE dropped
                /\ UNCHANGED panicked
        /\ UNCHANGED <<fkOn, now, results, resLimit, resLeftOut, pending, sweeps>>
        /\ UNCHANGED <<chClosed, doneClosed, workerPc, processed, workerReq, closePc,
                       storeOpen, decayPc, decayCancelled, decayTick, reflectPc,
                       reflectCancelled, reflectTick>>
        /\ UNCHANGED concVars

\* Search with the reinforcement loop of step 7 over the top limit of step 6,
\* before the injection of step 6b
SearchReinforcesRanked(q, u, limit) ==
    /\ pending = <<>>
    /\ ConnFree
    /\ ScoredCandidates(db, u) # {}
    /\ \A i \in ScoredCandidates(db, u) : db.mem[i].access < MaxAccess
    /\ \E o \in SearchOutcomes(db, now, q, u, limit, DefaultSectorWeights) :
           /\ results' = o.results
           /\ resLeftOut' = o.leftOut
           /\ pending' = o.ranked
    /\ resLimit' = EffectiveLimit(limit)
    /\ opLog' = Log("search", FALSE, FALSE, FALSE)
    /\ UNCHANGED <<db, fkOn, now, sweeps>>
    /\ UNCHANGED lifeVars
    /\ UNCHANGED concVars

\* Engram.Search up to its return value: steps 1-6b
Search(q, u, limit) ==
    /\ pending = <<>>
    /\ ConnFree
    /\ ScoredCandidates(db, u) # {}
    /\ \A i \in ScoredCandidates(db, u) : db.mem[i].access < MaxAccess
    /\ \E o \in SearchOutcomes(db, now, q, u, limit, DefaultSectorWeights) :
           /\ results' = o.results
           /\ resLeftOut' = o.leftOut
           /\ pending' = o.results
    /\ resLimit' = EffectiveLimit(limit)
    /\ opLog' = Log("search", FALSE, FALSE, FALSE)
    /\ UNCHANGED <<db, fkOn, now, sweeps>>
    /\ UNCHANGED lifeVars
    /\ UNCHANGED concVars

\* Engram.SearchWithOptions up to its return value
SearchWithOptions(q, u, limit, sectors) ==
    LET opts == [query |-> q, user |-> u, limit |-> limit, after |-> NoTime,
                 before |-> now, sectors |-> sectors]
    IN  /\ pending = <<>>
        /\ ConnFree
        /\ FilteredCandidates(db, opts) # {}
        /\ \A i \in ScoredCandidates(db, u) : db.mem[i].access < MaxAccess
        /\ \E o \in SearchWithOptionsOutcomes(db, now, opts, DefaultSectorWeights) :
               /\ results' = o.results
               /\ resLeftOut' = o.leftOut
               /\ pending' = o.results
        /\ resLimit' = EffectiveLimit(limit)
        /\ opLog' = Log("searchopts", FALSE, FALSE, FALSE)
        /\ UNCHANGED <<db, fkOn, now, sweeps>>
        /\ UNCHANGED lifeVars
        /\ UNCHANGED concVars

\* step 7 of Search and SearchWithOptions: one ReinforceSalience(r.ID, 0.15)
\* of the loop over the results; each is a statement of its own on the store
Reinforce ==
    /\ pending # <<>>
    /\ ConnFree
    /\ db' = ReinforceSalience(db, Head(pending), searchBoost, now)
    /\ pending' = Tail(pending)
    /\ UNCHANGED <<fkOn, now, results, resLimit, resLeftOut, opLog, sweeps>>
    /\ UNCHANGED lifeVars
    /\ UNCHANGED concVars

\* Engram.Reflect
Reflect(u, minMemories, provider) ==
    /\ pending = <<>>
    /\ db.nextMem + Len(provider.reflections) <= MaxMemIds + 1
    /\ \E o \in ReflectOutcomes(db, fkOn, now,
                                [user |-> u, window |-> 0, minMemories |-> minMemories,
                                 sectors |-> {}], provider) :
           /\ db' = o.db
           /\ opLog' = Log("reflect", o.err, FALSE, o.db # db)
           /\ reflLog' = reflLog \cup
                  {[mid |-> db.nextMem + k - 1, provided |-> o.unique[k].salience] :
                      k \in 1..Len(o.unique)}
    /\ UNCHANGED <<fkOn, now, results, resLimit, resLeftOut, pending, sweeps>>
    /\ UNCHANGED lifeVars
    /\ UNCHANGED <<addVars, txVars, reflPc, reflQueue, reflLocal, lastVerdict, call, ops>>

\* one tick of the decay worker: Store.RunDecaySweep(cfg.MinDecayScore, rates)
DecaySweep(fault) ==
    /\ pending = <<>>
    /\ sweeps < MaxSweeps
    /\ LET r == RunDecaySweep(db, fkOn, defaultMinDecayScore, DefaultDecayRates, now, fault)
       IN  /\ db' = r.db
           /\ opLog' = Log("sweep", r.err, fault.step # "none", r.db # db)
    /\ sweeps' = sweeps + 1
    /\ UNCHANGED <<fkOn, now, results, resLimit, resLeftOut, pending>>
    /\ UNCHANGED lifeVars
    /\ UNCHANGED concVars

\* time passes
Tick ==
    /\ now + DayStep <= MaxDays
    /\ now' = now + DayStep
    /\ UNCHANGED <<db, fkOn, results, resLimit, resLeftOut, pending, opLog, sweeps>>
    /\ UNCHANGED lifeVars
    /\ UNCHANGED concVars

\* Engram.Close, then Init on the same DBPath: NewStore opens the file again
Reopen ==
    /\ pending = <<>>
    /\ db' = NewStore(db).db
    /\ fkOn' = NewStore(db).fk
    /\ opLog' = Log("init", FALSE, FALSE, FALSE)
    /\ UNCHANGED <<now, results, resLimit, resLeftOut, pending, sweeps>>
    /\ UNCHANGED lifeVars
    /\ UNCHANGED concVars

ProviderReturns ==
    {[err |-> TRUE, reflections |-> <<>>]}
    \cup {[err |-> FALSE, reflections |-> <<[content |-> "c3", salience |-> sal,
                                             entities |-> <<"e2">>, embedOk |-> TRUE]>>] :
             sal \in ReflectionSaliences}

\* what a provider may put in Reflection.Salience: negative, zero, inside
\* (0, 1] below, at and above 0.7, and above 1
ProviderSaliences == {0 - 200, 0, 600, 700, 1000, 1500}

\* the provider returns one reflection or two
ReflectionLists ==
    {<<[content |-> "c3", salience |-> s1, entities |-> <<>>, embedOk |-> TRUE]>> :
        s1 \in ProviderSaliences}
    \cup {<<[content |-> "c3", salience |-> s1, entities |-> <<>>, embedOk |-> TRUE],
             [content |-> "c2", salience |-> s2, entities |-> <<"e2">>, embedOk |-> FALSE]>> :
             s1 \in ProviderSaliences, s2 \in ProviderSaliences}

\* Reflective synthesis: a user with stored memories, and Reflect calls
\* whose provider returns every salience
NextReflect ==
    \/ \E c \in {"c1", "c2"} :
          AddWithOptions("u1", c, 0, TRUE, <<>>, defaultMaxMemories, FALSE)
    \/ \E refs \in ReflectionLists : Reflect("u1", 1, [err |-> FALSE, reflections |-> refs])

SpecReflect == Init /\ [][NextReflect]_vars

\* The store under one user's writes, the decay worker's sweeps, and
\* restarts of the engine on the same file
Next ==
    \/ \E sal \in SalienceInputs :
          AddWithOptions("u1", "c1", sal, TRUE, <<"e1">>, MaxMemoriesPerUser, FALSE)
    \/ \E p \in ProviderReturns : Reflect("u1", 1, p)
    \/ \E f \in SweepFaults(db, defaultMinDecayScore, DefaultDecayRates, now) : DecaySweep(f)
    \/ Tick
    \/ Reopen

Spec == Init /\ [][Next]_vars

\* what the searching user stores: a memory matching the query with the
\* default salience, and high-salience memories orthogonal to it
SearchAddInputs ==
    {[content |-> "c1", salience |-> 0],
     [content |-> "c2", salience |-> 700],
     [content |-> "c2", salience |-> 900]}

\* Retrieval: one user's memories of differing similarity and salience,
\* searched with every limit
NextSearch ==
    \/ \E in \in SearchAddInputs :
          AddWithOptions("u1", in.content, in.salience, TRUE, <<>>, defaultMaxMemories, FALSE)
    \/ \E limit \in LimitInputs : Search("c1", "u1", limit)
    \/ \E limit \in LimitInputs, sectors \in {{}, {"episodic"}} :
          SearchWithOptions("c1", "u1", limit, sectors)
    \/ Reinforce

SpecSearch == Init /\ [][NextSearch]_vars

----------------------------------------------------------------------------
(* The goroutines of an engine configured with the LLM classifier, and Close *)

\* what the LLM answers for a request: a sector, or the call fails
LLMVerdicts == {"episodic", "semantic", "error"}

\* Store.UpdateMemorySector(id, sector): the memory's sector and its vector
\* rows' sector, in one transaction; no row changes when the id is gone
UpdateMemorySector(d, mid, sector) ==
    IF mid \notin MemIds(d) THEN d
    ELSE [d EXCEPT !.mem[mid].sector = sector,
                   !.vec = {IF v.memory_id = mid THEN [v EXCEPT !.sector = sector] ELSE v :
                               v \in d.vec}]

\* reclassify without the return after a failed LLM call: the update runs
\* with the zero Sector
reclassifyIgnoresError(d, open, req, verdict) ==
    IF verdict = "error" THEN UpdateMemorySector(d, req.memoryID, "")
    ELSE IF verdict = Classify(req.content) THEN d
    ELSE IF ~open THEN d
    ELSE UpdateMemorySector(d, req.memoryID, verdict)

\* LLMClassifier.reclassify(req) with the LLM answering verdict; on a closed
\* database UpdateMemorySector returns an error, which is logged
reclassify(d, open, req, verdict) ==
    IF verdict = "error" THEN d
    ELSE IF verdict = Classify(req.content) THEN d
    ELSE IF ~open THEN d
    ELSE UpdateMemorySector(d, req.memoryID, verdict)

\* LLMClassifier.worker: for req := range lc.reclassCh
WorkerReceive ==
    /\ panicked = ""
    /\ workerPc = "recv"
    /\ reclassCh # <<>>
    /\ workerReq' = Head(reclassCh)
    /\ reclassCh' = Tail(reclassCh)
    /\ workerPc' = "reclassify"
    /\ UNCHANGED storeVars
    /\ UNCHANGED <<chClosed, doneClosed, accepted, processed, dropped, panicked, closePc,
                   storeOpen, decayPc, decayCancelled, decayTick, reflectPc,
                   reflectCancelled, reflectTick>>
    /\ UNCHANGED concVars

\* LLMClassifier.worker: lc.reclassify(req); time.Sleep(reclassDelay)
WorkerReclassify ==
    /\ panicked = ""
    /\ workerPc = "reclassify"
    /\ \E verdict \in LLMVerdicts :
           /\ reclassify(db, storeOpen, workerReq, verdict) # db => ConnFree
           /\ db' = reclassify(db, storeOpen, workerReq, verdict)
           /\ lastVerdict' = verdict
    /\ processed' = processed \cup {workerReq}
    /\ workerReq' = NoRequest
    /\ workerPc' = "recv"
    /\ UNCHANGED <<fkOn, now, results, resLimit, resLeftOut, pending, opLog, sweeps>>
    /\ UNCHANGED <<reclassCh, chClosed, doneClosed, accepted, dropped, panicked, closePc,
                   storeOpen, decayPc, decayCancelled, decayTick, reflectPc,
                   reflectCancelled, reflectTick>>
    /\ UNCHANGED <<addVars, txVars, reflVars, call, ops>>

\* LLMClassifier.worker: the range ends on the closed, drained channel and
\* the deferred close(lc.done) runs
WorkerExit ==
    /\ panicked = ""
    /\ workerPc = "recv"
    /\ reclassCh = <<>>
    /\ chClosed
    /\ workerPc' = "exited"
    /\ doneClosed' = TRUE
    /\ UNCHANGED storeVars
    /\ UNCHANGED <<reclassCh, chClosed, accepted, processed, dropped, workerReq, panicked,
                   closePc, storeOpen, decayPc, decayCancelled, decayTick, reflectPc,
                   reflectCancelled, reflectTick>>
    /\ UNCHANGED concVars

\* Engram.Close: cm.cancelDecay()
CloseCancelDecay ==
    /\ panicked = ""
    /\ closePc = "none"
    /\ decayCancelled' = TRUE
    /\ closePc' = "cancelReflect"
    /\ UNCHANGED storeVars
    /\ UNCHANGED <<reclassCh, chClosed, doneClosed, workerPc, accepted, processed, dropped,
                   workerReq, panicked, storeOpen, decayPc, decayTick, reflectPc,
                   reflectCancelled, reflectTick>>
    /\ UNCHANGED concVars

\* Engram.Close: cm.cancelReflect()
CloseCancelReflect ==
    /\ panicked = ""
    /\ closePc = "cancelReflect"
    /\ reflectCancelled' = TRUE
    /\ closePc' = "closeClassifier"
    /\ UNCHANGED storeVars
    /\ UNCHANGED <<reclassCh, chClosed, doneClosed, workerPc, accepted, processed, dropped,
                   workerReq, panicked, storeOpen, decayPc, decayCancelled, decayTick,
                   reflectPc, reflectTick>>
    /\ UNCHANGED concVars

\* LLMClassifier.Close: close(lc.reclassCh); closing a closed channel panics
CloseChannel ==
    /\ panicked = ""
    /\ closePc = "closeClassifier"
    /\ IF chClosed
       THEN panicked' = "close of closed channel" /\ UNCHANGED <<chClosed, closePc>>
       ELSE chClosed' = TRUE /\ closePc' = "waitDone" /\ UNCHANGED panicked
    /\ UNCHANGED storeVars
    /\ UNCHANGED <<reclassCh, doneClosed, workerPc, accepted, processed, dropped, workerReq,
                   storeOpen, decayPc, decayCancelled, decayTick, reflectPc,
                   reflectCancelled, reflectTick>>
    /\ UNCHANGED concVars

\* LLMClassifier.Close without the receive from lc.done
CloseWithoutWait ==
    /\ panicked = ""
    /\ closePc = "waitDone"
    /\ closePc' = "closeStore"
    /\ UNCHANGED storeVars
    /\ UNCHANGED <<reclassCh, chClosed, doneClosed, workerPc, accepted, processed, dropped,
                   workerReq, panicked, storeOpen, decayPc, decayCancelled, decayTick,
                   reflectPc, reflectCancelled, reflectTick>>
    /\ UNCHANGED concVars

\* LLMClassifier.Close: <-lc.done
CloseWaitDone ==
    /\ panicked = ""
    /\ closePc = "waitDone"
    /\ doneClosed
    /\ closePc' = "closeStore"
    /\ UNCHANGED storeVars
    /\ UNCHANGED <<reclassCh, chClosed, doneClosed, workerPc, accepted, processed, dropped,
                   workerReq, panicked, storeOpen, decayPc, decayCancelled, decayTick,
                   reflectPc, reflectCancelled, reflectTick>>
    /\ UNCHANGED concVars

\* Engram.Close: return cm.store.Close()
CloseStore ==
    /\ panicked = ""
    /\ closePc = "closeStore"
    /\ storeOpen' = FALSE
    /\ closePc' = "closed"
    /\ UNCHANGED storeVars
    /\ UNCHANGED <<reclassCh, chClosed, doneClosed, workerPc, accepted, processed, dropped,
                   workerReq, panicked, decayPc, decayCancelled, decayTick, reflectPc,
                   reflectCancelled, reflectTick>>
    /\ UNCHANGED concVars

----------------------------------------------------------------------------
(* The background workers *)

\* the decay worker's time.Ticker delivers a tick (its channel holds one)
DecayTimerFires ==
    /\ panicked = ""
    /\ decayPc # "exited"
    /\ ~decayTick
    /\ decayTick' = TRUE
    /\ UNCHANGED storeVars
    /\ UNCHANGED <<reclassCh, chClosed, doneClosed, workerPc, accepted, processed, dropped,
                   workerReq, panicked, closePc, storeOpen, decayPc, decayCancelled,
                   reflectPc, reflectCancelled, reflectTick>>
    /\ UNCHANGED concVars

\* startDecayWorker's select takes case <-ticker.C. Go's select chooses among
\* the ready cases at random, so a ready ctx.Done() does not exclude this one.
DecaySelectTick ==
    /\ panicked = ""
    /\ decayPc = "select"
    /\ decayTick
    /\ decayTick' = FALSE
    /\ decayPc' = "sweeping"
    /\ UNCHANGED storeVars
    /\ UNCHANGED <<reclassCh, chClosed, doneClosed, workerPc, accepted, processed, dropped,
                   workerReq, panicked, closePc, storeOpen, decayCancelled, reflectPc,
                   reflectCancelled, reflectTick>>
    /\ UNCHANGED concVars

\* startDecayWorker's select takes case <-ctx.Done(): return
DecaySelectDone ==
    /\ panicked = ""
    /\ decayPc = "select"
    /\ decayCancelled
    /\ decayPc' = "exited"
    /\ UNCHANGED storeVars
    /\ UNCHANGED <<reclassCh, chClosed, doneClosed, workerPc, accepted, processed, dropped,
                   workerReq, panicked, closePc, storeOpen, decayCancelled, decayTick,
                   reflectPc, reflectCancelled, reflectTick>>
    /\ UNCHANGED concVars

\* the decay worker's cm.store.RunDecaySweep(cm.config.MinDecayScore); on a
\* closed database BeginTx fails and the error is logged
DecayWorkerSweep ==
    /\ panicked = ""
    /\ decayPc = "sweeping"
    /\ \E fault \in SweepFaults(db, defaultMinDecayScore, DefaultDecayRates, now) :
          LET r == RunDecaySweep(db, fkOn, defaultMinDecayScore, DefaultDecayRates, now,
                                 IF storeOpen THEN fault
                                 ELSE [step |-> "begin", ids |-> {}])
          IN  /\ db' = r.db
              /\ opLog' = Log("sweep", r.err, fault.step # "none" \/ ~storeOpen, r.db # db)
    /\ decayPc' = "select"
    /\ UNCHANGED <<fkOn, now, results, resLimit, resLeftOut, pending, sweeps>>
    /\ UNCHANGED <<reclassCh, chClosed, doneClosed, workerPc, accepted, processed, dropped,
                   workerReq, panicked, closePc, storeOpen, decayCancelled, decayTick,
                   reflectPc, reflectCancelled, reflectTick>>
    /\ UNCHANGED concVars

\* the reflection worker's time.Ticker delivers a tick
ReflectTimerFires ==
    /\ panicked = ""
    /\ reflectPc # "exited"
    /\ ~reflectTick
    /\ reflectTick' = TRUE
    /\ UNCHANGED storeVars
    /\ UNCHANGED <<reclassCh, chClosed, doneClosed, workerPc, accepted, processed, dropped,
                   workerReq, panicked, closePc, storeOpen, decayPc, decayCancelled,
                   decayTick, reflectPc, reflectCancelled>>
    /\ UNCHANGED concVars

\* startReflectionWorker's select takes case <-ticker.C
ReflectSelectTick ==
    /\ panicked = ""
    /\ reflectPc = "select"
    /\ reflectTick
    /\ reflectTick' = FALSE
    /\ reflectPc' = "cycle"
    /\ UNCHANGED storeVars
    /\ UNCHANGED <<reclassCh, chClosed, doneClosed, workerPc, accepted, processed, dropped,
                   workerReq, panicked, closePc, storeOpen, decayPc, decayCancelled,
                   decayTick, reflectCancelled>>
    /\ UNCHANGED concVars

\* startReflectionWorker's select takes case <-ctx.Done(): return
ReflectSelectDone ==
    /\ panicked = ""
    /\ reflectPc = "select"
    /\ reflectCancelled
    /\ reflectPc' = "exited"
    /\ UNCHANGED storeVars
    /\ UNCHANGED <<reclassCh, chClosed, doneClosed, workerPc, accepted, processed, dropped,
                   workerReq, panicked, closePc, storeOpen, decayPc, decayCancelled,
                   decayTick, reflectCancelled, reflectTick>>
    /\ UNCHANGED concVars

\* Store.GetActiveUserIDs: SELECT DISTINCT user_id FROM memories
GetActiveUserIDs(d) == {d.mem[i].user : i \in MemIds(d)}

\* the loop of runReflectionCycle over the users, in the order the query
\* returned them: every database it can leave
RECURSIVE ReflectUsers(_, _, _, _)
ReflectUsers(D, fk, t, users) ==
    IF users = <<>> THEN D
    ELSE ReflectUsers(
            UNION {UNION {{o.db : o \in ReflectOutcomes(
                                    d, fk, t,
                                    [user |-> Head(users), window |-> defaultMemoryWindow,
                                     minMemories |-> defaultMinMemories, sectors |-> {}], p)} :
                          p \in ProviderReturns} :
                   d \in D},
            fk, t, Tail(users))

\* runReflectionCycle(ctx): nothing when the context is cancelled or the
\* database is closed
runReflectionCycle(d, fk, t, cancelled, open) ==
    IF cancelled \/ ~open THEN {d}
    ELSE UNION {ReflectUsers({d}, fk, t, order) : order \in Perms(GetActiveUserIDs(d))}

\* the reflection worker's cm.runReflectionCycle(ctx)
ReflectionCycle ==
    /\ panicked = ""
    /\ reflectPc = "cycle"
    /\ \E d \in runReflectionCycle(db, fkOn, now, reflectCancelled, storeOpen) : db' = d
    /\ reflectPc' = "select"
    /\ UNCHANGED <<fkOn, now, results, resLimit, resLeftOut, pending, opLog, sweeps>>
    /\ UNCHANGED <<reclassCh, chClosed, doneClosed, workerPc, accepted, processed, dropped,
                   workerReq, panicked, closePc, storeOpen, decayPc, decayCancelled,
                   decayTick, reflectCancelled, reflectTick>>
    /\ UNCHANGED concVars

\* An engine with the LLM classifier and a reflection provider: one caller
\* adding memories, the three background goroutines, and one call of Close
NextLife ==
    \/ AddWithOptions("u1", "c1", 0, TRUE, <<>>, defaultMaxMemories, TRUE)
    \/ WorkerReceive
    \/ WorkerReclassify
    \/ WorkerExit
    \/ CloseCancelDecay
    \/ CloseCancelReflect
    \/ CloseChannel
    \/ CloseWaitDone
    \/ CloseStore
    \/ DecayTimerFires
    \/ DecaySelectTick
    \/ DecaySelectDone
    \/ DecayWorkerSweep
    \/ ReflectTimerFires
    \/ ReflectSelectTick
    \/ ReflectSelectDone
    \/ ReflectionCycle

SpecLife == Init /\ [][NextLife]_vars

----------------------------------------------------------------------------
(* Concurrent callers: each call runs statement by statement. Every        *)
(* statement goes through the store's one connection, so it waits while a  *)
(* transaction holds it.                                                   *)

\* tuples of the variables a statement leaves alone
storeRest == <<fkOn, now, results, resLimit, resLeftOut, pending, sweeps>>
lifeRest == <<chClosed, doneClosed, workerPc, processed, workerReq, closePc, storeOpen,
              decayPc, decayCancelled, decayTick, reflectPc, reflectCancelled,
              reflectTick>>
queueVars == <<reclassCh, accepted, dropped, panicked>>

\* what each caller stores: a1 a memory that a sweep prunes at once, a2 one
\* with the default salience; both name the entity e1
AddInputs(c) ==
    IF c = "a1" THEN [user |-> "u1", content |-> "c1", salience |-> 5, entities |-> <<"e1">>]
    ELSE [user |-> "u1", content |-> "c1", salience |-> 0, entities |-> <<"e1">>]

\* AddWithOptions with step 7b before step 7
AddNextPcSubmitFirst(pc) ==
    CASE pc = "insertMemory" -> "submit"
      [] pc = "submit" -> "insertVector"
      [] pc = "insertVector" -> "upsert"
      [] pc = "upsert" -> "assoc"
      [] pc = "assoc" -> "count"
      [] OTHER -> "unlock"

\* the order of the steps of AddWithOptions: 6 (memory), 7 (vector), 7b
\* (submit), 8 (waypoint, association), 9 (cap)
AddNextPc(pc) ==
    CASE pc = "insertMemory" -> "insertVector"
      [] pc = "insertVector" -> "submit"
      [] pc = "submit" -> "upsert"
      [] pc = "upsert" -> "assoc"
      [] pc = "assoc" -> "count"
      [] OTHER -> "unlock"

\* a caller enters AddWithOptions with a non-empty UserID
AddCall(c) ==
    /\ panicked = ""
    /\ addPc[c] = "idle"
    /\ ops < MaxConcOps
    /\ addPc' = [addPc EXCEPT ![c] = "lock"]
    /\ addLocal' = [addLocal EXCEPT ![c] = NoLocals]
    /\ ops' = ops + 1
    /\ UNCHANGED <<storeVars, lifeVars, mu, txVars, reflVars, lastVerdict, call>>

\* cm.mu.Lock() without waiting for the holder
AddLockNoMutex(c) ==
    /\ panicked = ""
    /\ addPc[c] = "lock"
    /\ mu' = c
    /\ addPc' = [addPc EXCEPT ![c] = "insertMemory"]
    /\ UNCHANGED <<storeVars, lifeVars, addLocal, txVars, reflVars, lastVerdict, call, ops>>

\* cm.mu.Lock()
AddLock(c) ==
    /\ panicked = ""
    /\ addPc[c] = "lock"
    /\ mu = ""
    /\ mu' = c
    /\ addPc' = [addPc EXCEPT ![c] = "insertMemory"]
    /\ UNCHANGED <<storeVars, lifeVars, addLocal, txVars, reflVars, lastVerdict, call, ops>>

\* step 6: memID, err := cm.store.InsertMemory(mem)
AddInsertMemory(c) ==
    LET in == AddInputs(c)
    IN  /\ panicked = ""
        /\ addPc[c] = "insertMemory"
        /\ storeOpen
        /\ ConnFree
        /\ db' = InsertMemory(db, [user |-> in.user, content |-> in.content,
                                   sector |-> Classify(in.content),
                                   salience |-> ResolveSalience(in.salience)], now)
        /\ addLocal' = [addLocal EXCEPT ![c].memID = db.nextMem]
        /\ addPc' = [addPc EXCEPT ![c] = AddNextPc("insertMemory")]
        /\ UNCHANGED <<storeRest, opLog, lifeVars, mu, txVars, reflVars, lastVerdict, call, ops>>

\* step 7: cm.store.InsertVector(memID, sector, vec), its error logged
AddInsertVector(c) ==
    LET in == AddInputs(c)
    IN  /\ panicked = ""
        /\ addPc[c] = "insertVector"
        /\ ConnFree
        /\ db' = InsertVector(db, fkOn, addLocal[c].memID, Classify(in.content),
                              Embed(in.content))
        /\ addPc' = [addPc EXCEPT ![c] = AddNextPc("insertVector")]
        /\ UNCHANGED <<storeRest, opLog, lifeVars, addLocal, mu, txVars, reflVars,
                       lastVerdict, call, ops>>

\* step 7b: lc.SubmitForReclassification(memID, content)
AddSubmit(c) ==
    LET req == [memoryID |-> addLocal[c].memID, content |-> AddInputs(c).content]
        submit == SubmitOutcome(reclassCh, chClosed)
    IN  /\ panicked = ""
        /\ addPc[c] = "submit"
        /\ reclassCh' = IF submit = "sent" THEN Append(reclassCh, req) ELSE reclassCh
        /\ accepted' = IF submit = "sent" THEN accepted \cup {req} ELSE accepted
        /\ dropped' = IF submit = "dropped" THEN dropped \cup {req} ELSE dropped
        /\ panicked' = IF submit = "panic" THEN "send on closed channel" ELSE panicked
        /\ addPc' = [addPc EXCEPT ![c] = AddNextPc("submit")]
        /\ UNCHANGED <<storeVars, lifeRest, addLocal, mu, txVars, reflVars, lastVerdict, call, ops>>

\* step 8: wpID, err := cm.store.UpsertWaypoint(entity.Text, entity.Type)
AddUpsertWaypoint(c) ==
    LET text == Head(AddInputs(c).entities)
    IN  /\ panicked = ""
        /\ addPc[c] = "upsert"
        /\ ConnFree
        /\ db' = UpsertWaypoint(db, text)
        /\ addLocal' = [addLocal EXCEPT ![c].wpID = WaypointId(db, text)]
        /\ addPc' = [addPc EXCEPT ![c] = AddNextPc("upsert")]
        /\ UNCHANGED <<storeRest, opLog, lifeVars, mu, txVars, reflVars, lastVerdict, call, ops>>

\* step 8: cm.store.InsertAssociation(memID, wpID, 0.5), its error dropped
AddInsertAssociation(c) ==
    /\ panicked = ""
    /\ addPc[c] = "assoc"
    /\ ConnFree
    /\ db' = InsertAssociation(db, fkOn, addLocal[c].memID, addLocal[c].wpID, addAssocWeight)
    /\ addPc' = [addPc EXCEPT ![c] = AddNextPc("assoc")]
    /\ UNCHANGED <<storeRest, opLog, lifeVars, addLocal, mu, txVars, reflVars, lastVerdict, call,
                   ops>>

\* step 9, EnforceMemoryLimit: SELECT COUNT(*) ...; return if count <= maxCount
AddEnforceCount(c) ==
    LET count == Cardinality(UserMemIds(db, AddInputs(c).user))
        excess == IF count <= MaxMemoriesPerUser THEN 0 ELSE count - MaxMemoriesPerUser
    IN  /\ panicked = ""
        /\ addPc[c] = "count"
        /\ ConnFree
        /\ addLocal' = [addLocal EXCEPT ![c].excess = excess]
        /\ addPc' = [addPc EXCEPT ![c] = IF excess = 0 THEN "unlock" ELSE "delete"]
        /\ UNCHANGED <<storeVars, lifeVars, mu, txVars, reflVars, lastVerdict, call, ops>>

\* step 9, EnforceMemoryLimit: DELETE FROM memories WHERE id IN (... LIMIT excess)
AddEnforceDelete(c) ==
    /\ panicked = ""
    /\ addPc[c] = "delete"
    /\ ConnFree
    /\ \E D \in LimitRows(db, AddInputs(c).user, addLocal[c].excess) :
           db' = DeleteMemories(db, fkOn, D)
    /\ addPc' = [addPc EXCEPT ![c] = "unlock"]
    /\ UNCHANGED <<storeRest, opLog, lifeVars, addLocal, mu, txVars, reflVars, lastVerdict, call,
                   ops>>

\* return memID, nil; the deferred cm.mu.Unlock()
AddUnlock(c) ==
    /\ panicked = ""
    /\ addPc[c] = "unlock"
    /\ mu' = ""
    /\ addPc' = [addPc EXCEPT ![c] = "idle"]
    /\ opLog' = Log("add", FALSE, FALSE, TRUE)
    /\ UNCHANGED <<db, storeRest, lifeVars, addLocal, txVars, reflVars, lastVerdict, call, ops>>

\* RunDecaySweep: tx, err := s.db.Begin() takes the connection
SweepBegin ==
    /\ panicked = ""
    /\ sweepPc = "idle"
    /\ ops < MaxConcOps
    /\ storeOpen
    /\ ConnFree
    /\ conn' = "sweep"
    /\ sweepPlan' = [NoPlan EXCEPT !.snap = db]
    /\ sweepPc' = "query"
    /\ ops' = ops + 1
    /\ UNCHANGED <<storeVars, lifeVars, addVars, reflVars, lastVerdict, call>>

\* RunDecaySweep: the SELECT and the loop over its rows fill updates and toDelete
SweepQuery ==
    LET del == SweepToDelete(db, defaultMinDecayScore, DefaultDecayRates, now)
    IN  /\ panicked = ""
        /\ sweepPc = "query"
        /\ sweepPlan' = [sweepPlan EXCEPT
               !.scores = [i \in MemIds(db) \ del |-> SweepScore(db, DefaultDecayRates, now, i)],
               !.del = del]
        /\ sweepPc' = "apply"
        /\ UNCHANGED <<storeVars, lifeVars, addVars, conn, reflVars, lastVerdict, call, ops>>

\* the sweep's UPDATE writing the new score into salience as well
ApplySweepPlanLowersSalience(d, fk, plan) ==
    LET d1 == [d EXCEPT !.mem =
                  [i \in MemIds(d) |->
                      IF i \in DOMAIN plan.scores
                      THEN [d.mem[i] EXCEPT !.decay = plan.scores[i],
                                            !.salience = plan.scores[i] \div 2]
                      ELSE d.mem[i]]]
        d2 == DeleteMemories(d1, fk, plan.del)
    IN  DeleteOrphanWaypoints(PruneAssociations(DecayAssociations(d2)), fk)

\* the statements of RunDecaySweep after the SELECT, none failing: the
\* UPDATEs and DELETEs by id, the association decay and prune, the orphan
\* waypoints
ApplySweepPlan(d, fk, plan) ==
    LET d1 == [d EXCEPT !.mem =
                  [i \in MemIds(d) |->
                      IF i \in DOMAIN plan.scores
                      THEN [d.mem[i] EXCEPT !.decay = plan.scores[i]]
                      ELSE d.mem[i]]]
        d2 == DeleteMemories(d1, fk, plan.del)
    IN  DeleteOrphanWaypoints(PruneAssociations(DecayAssociations(d2)), fk)

\* RunDecaySweep: the writes inside the transaction
SweepApply ==
    /\ panicked = ""
    /\ sweepPc = "apply"
    /\ db' = ApplySweepPlan(db, fkOn, sweepPlan)
    /\ sweepPc' = "commit"
    /\ UNCHANGED <<storeRest, opLog, lifeVars, addVars, conn, sweepPlan, reflVars,
                   lastVerdict, call, ops>>

\* RunDecaySweep: tx.Commit(), or its failure and the deferred tx.Rollback();
\* either gives the connection back
SweepCommit ==
    /\ panicked = ""
    /\ sweepPc = "commit"
    /\ \E ok \in BOOLEAN :
           /\ db' = IF ok THEN db ELSE sweepPlan.snap
           /\ opLog' = Log("sweep", ~ok, ~ok, ok /\ db # sweepPlan.snap)
    /\ conn' = ""
    /\ sweepPc' = "idle"
    /\ sweepPlan' = NoPlan
    /\ UNCHANGED <<storeRest, lifeVars, addVars, reflVars, lastVerdict, call, ops>>

\* steps 1-4 of Reflect: the reflections it goes on to store (none when
\* the memories are too few or the provider fails)
ReflectToStore(d, opts, provider) ==
    LET window == IF opts.window <= 0 THEN defaultMemoryWindow ELSE opts.window
        minMem == IF opts.minMemories <= 0 THEN defaultMinMemories ELSE opts.minMemories
    IN  {LET input == {i \in recent : d.mem[i].sector # SectorReflective}
         IN  IF Cardinality(recent) < minMem \/ Cardinality(input) < minMem \/ provider.err
             THEN <<>>
             ELSE deduplicateReflections(d, opts.user, provider.reflections)
         : recent \in GetRecentMemories(d, opts.user, window, opts.sectors)}

\* what the provider returns to the concurrent Reflect call
ConcProvider ==
    [err |-> FALSE, reflections |-> <<[content |-> "c3", salience |-> 0,
                                       entities |-> <<"e2">>, embedOk |-> TRUE]>>]

\* Reflect, steps 1-4: the reads, the provider call, the deduplication
ReflectCall(u, provider) ==
    /\ panicked = ""
    /\ reflPc = "idle"
    /\ ops < MaxConcOps
    /\ storeOpen
    /\ ConnFree
    /\ \E unique \in ReflectToStore(db, [user |-> u, window |-> 0, minMemories |-> 1,
                                         sectors |-> {}], provider) :
           /\ reflQueue' = [user |-> u, refs |-> unique]
           /\ reflPc' = IF unique = <<>> THEN "idle" ELSE "insertMemory"
    /\ ops' = ops + 1
    /\ UNCHANGED <<storeVars, lifeVars, addVars, txVars, reflLocal, reflLog, lastVerdict, call>>

\* Reflect, step 5: memID, err := cm.store.InsertMemory(mem) with the
\* clamped salience
ReflectInsertMemory ==
    LET ref == Head(reflQueue.refs)
    IN  /\ panicked = ""
        /\ reflPc = "insertMemory"
        /\ ConnFree
        /\ db' = InsertMemory(db, [user |-> reflQueue.user, content |-> ref.content,
                                   sector |-> SectorReflective,
                                   salience |-> ClampReflectionSalience(ref.salience)], now)
        /\ reflLocal' = [NoLocals EXCEPT !.memID = db.nextMem]
        /\ reflLog' = reflLog \cup {[mid |-> db.nextMem, provided |-> ref.salience]}
        /\ reflPc' = "insertVector"
        /\ UNCHANGED <<storeRest, opLog, lifeVars, addVars, txVars, reflQueue, lastVerdict, call,
                       ops>>

\* Reflect, step 5: cm.store.InsertVector(memID, SectorReflective, vec)
\* when the embedding succeeded
ReflectInsertVector ==
    LET ref == Head(reflQueue.refs)
    IN  /\ panicked = ""
        /\ reflPc = "insertVector"
        /\ ref.embedOk => ConnFree
        /\ db' = IF ref.embedOk
                 THEN InsertVector(db, fkOn, reflLocal.memID, SectorReflective,
                                   Embed(ref.content))
                 ELSE db
        /\ reflPc' = "upsert"
        /\ UNCHANGED <<storeRest, opLog, lifeVars, addVars, txVars, reflQueue, reflLocal,
                       reflLog, lastVerdict, call, ops>>

\* Reflect, step 5: wpID, err := cm.store.UpsertWaypoint(entity.Text, entity.Type)
ReflectUpsertWaypoint ==
    LET text == Head(Head(reflQueue.refs).entities)
    IN  /\ panicked = ""
        /\ reflPc = "upsert"
        /\ ConnFree
        /\ db' = UpsertWaypoint(db, text)
        /\ reflLocal' = [reflLocal EXCEPT !.wpID = WaypointId(db, text)]
        /\ reflPc' = "assoc"
        /\ UNCHANGED <<storeRest, opLog, lifeVars, addVars, txVars, reflQueue, reflLog,
                       lastVerdict, call, ops>>

\* Reflect, step 5: cm.store.InsertAssociation(memID, wpID, 0.7); then the
\* next reflection, or the return
ReflectInsertAssociation ==
    /\ panicked = ""
    /\ reflPc = "assoc"
    /\ ConnFree
    /\ db' = InsertAssociation(db, fkOn, reflLocal.memID, reflLocal.wpID, reflectAssocWeight)
    /\ reflQueue' = [reflQueue EXCEPT !.refs = Tail(@)]
    /\ reflPc' = IF Tail(reflQueue.refs) = <<>> THEN "idle" ELSE "insertMemory"
    /\ opLog' = IF Tail(reflQueue.refs) = <<>> THEN Log("reflect", FALSE, FALSE, TRUE)
                ELSE opLog
    /\ UNCHANGED <<storeRest, lifeVars, addVars, txVars, reflLocal, reflLog, lastVerdict, call,
                   ops>>

\* Engram.Search up to its return value, called by one of the concurrent
\* callers; the reinforcement statements of step 7 follow one by one
SearchCall(q, u, limit) ==
    /\ panicked = ""
    /\ ops < MaxConcOps
    /\ pending = <<>>
    /\ ConnFree
    /\ ScoredCandidates(db, u) # {}
    /\ \E o \in SearchOutcomes(db, now, q, u, limit, DefaultSectorWeights) :
           /\ results' = o.results
           /\ resLeftOut' = o.leftOut
           /\ pending' = o.results
    /\ resLimit' = EffectiveLimit(limit)
    /\ opLog' = Log("search", FALSE, FALSE, FALSE)
    /\ ops' = ops + 1
    /\ UNCHANGED <<db, fkOn, now, sweeps, lifeVars, addVars, txVars, reflVars, lastVerdict, call>>

\* Two callers of AddWithOptions, a Reflect call, the decay sweep, the
\* reclassification worker and a searching caller, statement by statement
\* on one store
NextConc ==
    \/ \E c \in Callers : AddCall(c)
    \/ \E c \in Callers : AddLock(c)
    \/ \E c \in Callers : AddInsertMemory(c)
    \/ \E c \in Callers : AddInsertVector(c)
    \/ \E c \in Callers : AddSubmit(c)
    \/ \E c \in Callers : AddUpsertWaypoint(c)
    \/ \E c \in Callers : AddInsertAssociation(c)
    \/ \E c \in Callers : AddEnforceCount(c)
    \/ \E c \in Callers : AddEnforceDelete(c)
    \/ \E c \in Callers : AddUnlock(c)
    \/ SweepBegin
    \/ SweepQuery
    \/ SweepApply
    \/ SweepCommit
    \/ ReflectCall("u1", ConcProvider)
    \/ ReflectInsertMemory
    \/ ReflectInsertVector
    \/ ReflectUpsertWaypoint
    \/ ReflectInsertAssociation
    \/ WorkerReceive
    \/ WorkerReclassify
    \/ SearchCall("c1", "u1", 1)
    \/ Reinforce

SpecConc == Init /\ [][NextConc]_vars

----------------------------------------------------------------------------
(* Calls seen from the caller: each completed call leaves its arguments,   *)
(* the database it started from and what it returned in `call`.            *)

\* Reflect that treats a missing provider as nothing to reflect on
ReflectNoProviderEmpty(d, fk, t, opts, reflector) ==
    IF ~reflector.configured
    THEN {[db |-> d, err |-> FALSE, called |-> FALSE, stored |-> 0, unique |-> <<>>,
           input |-> {}]}
    ELSE ReflectOutcomes(d, fk, t, opts, reflector)

\* Engram.Reflect on an engine whose cm.reflector is reflector:
\* [configured, err, reflections]; nil is configured = FALSE
ReflectOrNoProvider(d, fk, t, opts, reflector) ==
    IF ~reflector.configured
    THEN {[db |-> d, err |-> TRUE, called |-> FALSE, stored |-> 0, unique |-> <<>>,
           input |-> {}]}
    ELSE ReflectOutcomes(d, fk, t, opts, reflector)

\* a caller's Engram.Reflect(ctx, opts)
ReflectReturns(opts, reflector) ==
    /\ \E o \in ReflectOrNoProvider(db, fkOn, now, opts, reflector) :
           /\ o.db.nextMem <= MaxMemIds + 1
           /\ db' = o.db
           /\ opLog' = Log("reflect", o.err, FALSE, o.db # db)
           /\ call' = [op |-> "reflect", pre |-> db, post |-> o.db, opts |-> opts,
                       reflector |-> reflector, err |-> o.err, called |-> o.called,
                       input |-> o.input, stored |-> o.unique]
    /\ UNCHANGED <<fkOn, now, results, resLimit, resLeftOut, pending, sweeps>>
    /\ UNCHANGED lifeVars
    /\ UNCHANGED <<addVars, txVars, reflVars, lastVerdict, ops>>

\* a reflection as the provider returns it
Candidate(c, embedOk) ==
    [content |-> c, salience |-> 800, entities |-> <<>>, embedOk |-> embedOk]

\* the calls. Reflectors: none, one that fails, and ones that return
\* reflections at every distance from the earlier reflection "c1".
\* ReflectOptions: MemoryWindow and MinMemories unset or small, Sectors unset
\* or one sector. Every reflector is called under the smallest threshold,
\* every option with no reflector, a failing one and one that answers.
ReflectCallInputs ==
    LET reflectors ==
            {[configured |-> FALSE, err |-> FALSE, reflections |-> <<>>],
             [configured |-> TRUE, err |-> TRUE, reflections |-> <<>>]}
            \cup {[configured |-> TRUE, err |-> FALSE, reflections |-> refs] :
                     refs \in {<<>>, <<Candidate("c1", TRUE)>>, <<Candidate("c1", FALSE)>>,
                               <<Candidate("c4", TRUE), Candidate("c5", TRUE)>>,
                               <<Candidate("c5", TRUE), Candidate("c3", TRUE)>>}}
        Options(w, n, S) ==
            [user |-> "u1", window |-> w, minMemories |-> n, sectors |-> S]
        options == {Options(0, 0, {}), Options(0, 2, {}), Options(1, 1, {}),
                    Options(2, 2, {}), Options(0, 1, {"episodic"}),
                    Options(2, 1, {"episodic"})}
    IN  {[opts |-> Options(0, 1, {}), reflector |-> r] : r \in reflectors}
        \cup {[opts |-> o, reflector |-> r] :
                 o \in options,
                 r \in {x \in reflectors :
                           \/ x.err
                           \/ ~x.configured
                           \/ x.reflections = <<Candidate("c1", TRUE)>>}}

\* Reflective synthesis as its caller sees it
NextReflectCalls ==
    \/ \E c \in {"c1", "c2"} :
          AddWithOptions("u1", c, 0, TRUE, <<>>, defaultMaxMemories, FALSE)
    \/ \E in \in ReflectCallInputs : ReflectReturns(in.opts, in.reflector)
    \/ Tick

SpecReflectCalls == Init /\ [][NextReflectCalls]_vars

----------------------------------------------------------------------------
(* The Store's methods called one at a time, as the store's tests call     *)
(* them, on databases that adds and sweeps have filled.                    *)

\* Store.ReinforceSalience(memoryID, boost)
StoreReinforce(mid, boost) ==
    /\ ops < MaxStoreCalls
    /\ db' = ReinforceSalience(db, mid, boost, now)
    /\ call' = [op |-> "reinforce", pre |-> db, post |-> db', mid |-> mid,
                boost |-> boost, at |-> now]
    /\ opLog' = Log("reinforce", FALSE, FALSE, db' # db)
    /\ ops' = ops + 1
    /\ UNCHANGED <<fkOn, now, results, resLimit, resLeftOut, pending, sweeps>>
    /\ UNCHANGED lifeVars
    /\ UNCHANGED <<addVars, txVars, reflVars, lastVerdict>>

\* Store.InsertVector(memoryID, sector, vec)
StoreInsertVector(mid) ==
    /\ ops < MaxStoreCalls
    /\ db' = InsertVector(db, fkOn, mid, "semantic", Embed("c1"))
    /\ call' = [op |-> "vector", pre |-> db, post |-> db', mid |-> mid,
                err |-> InsertVectorFails(db, fkOn, mid)]
    /\ opLog' = Log("vector", InsertVectorFails(db, fkOn, mid), FALSE, db' # db)
    /\ ops' = ops + 1
    /\ UNCHANGED <<fkOn, now, results, resLimit, resLeftOut, pending, sweeps>>
    /\ UNCHANGED lifeVars
    /\ UNCHANGED <<addVars, txVars, reflVars, lastVerdict>>

\* A run fills the database (adds of two users, a month passing, one sweep,
\* restarts of the engine on the same file)
\* and then calls one method of the Store on it, InsertAssociation up to
\* MaxStoreCalls times
\* Store.EnforceMemoryLimit(userID, maxCount)
StoreEnforce(u, maxCount) ==
    /\ ops < MaxStoreCalls
    /\ \E D \in EnforceMemoryLimitDeletes(db, u, maxCount) :
           db' = DeleteMemories(db, fkOn, D)
    /\ call' = [op |-> "enforce", pre |-> db, post |-> db', user |-> u,
                maxCount |-> maxCount]
    /\ opLog' = Log("enforce", FALSE, FALSE, db' # db)
    /\ ops' = ops + 1
    /\ UNCHANGED <<fkOn, now, results, resLimit, resLeftOut, pending, sweeps>>
    /\ UNCHANGED lifeVars
    /\ UNCHANGED <<addVars, txVars, reflVars, lastVerdict>>

\* Store.InsertAssociation(memoryID, waypointID, weight); `call` keeps the
\* calls made in a row, and the database before the first of them
StoreInsertAssociation(mid, wid, weight) ==
    LET first == call.op # "assoc"
        this == [mid |-> mid, wid |-> wid, weight |-> weight,
                 err |-> InsertAssociationFails(db, fkOn, mid, wid)]
    IN  /\ ops < MaxStoreCalls
        /\ db' = InsertAssociation(db, fkOn, mid, wid, weight)
        /\ call' = [op |-> "assoc", pre |-> IF first THEN db ELSE call.pre, post |-> db',
                    calls |-> IF first THEN <<this>> ELSE Append(call.calls, this)]
        /\ opLog' = Log("assoc", this.err, FALSE, db' # db)
        /\ ops' = ops + 1
        /\ UNCHANGED <<fkOn, now, results, resLimit, resLeftOut, pending, sweeps>>
        /\ UNCHANGED lifeVars
        /\ UNCHANGED <<addVars, txVars, reflVars, lastVerdict>>

NextStoreCalls ==
    \/ /\ call.op = "none"
       /\ \E in \in {<<"u1", 0, "e1">>, <<"u1", 5, "e1">>, <<"u2", 0, "e2">>} :
              AddWithOptions(in[1], "c1", in[2], TRUE, <<in[3]>>, defaultMaxMemories, FALSE)
    \/ call.op = "none" /\ sweeps = 0 /\ DecaySweep(NoFault)
    \/ call.op = "none" /\ Tick
    \/ call.op = "none" /\ Reopen
    \/ call.op = "none" /\ \E mid \in 1..MaxMemIds : StoreInsertVector(mid)
    \/ /\ call.op = "none"
       /\ \E mid \in 1..MaxMemIds, boost \in {0, 150, 600} : StoreReinforce(mid, boost)
    \/ /\ call.op = "none"
       /\ \E u \in Users, maxCount \in 0..MaxMemoriesPerUser : StoreEnforce(u, maxCount)
    \/ /\ call.op \in {"none", "assoc"}
       /\ \E wid \in {1, 2}, weight \in {300, 700} : StoreInsertAssociation(1, wid, weight)

SpecStoreCalls == Init /\ [][NextStoreCalls]_vars

----------------------------------------------------------------------------
(* The facade called by users with and without a user id, on an engine    *)
(* with the LLM classifier, an open store and an open queue.               *)

\* a caller's Engram.AddWithOptions(opts): returns (id, nil)
AddWithOptionsReturns(u, c, llm) ==
    LET opts == [user |-> u, content |-> c, hint |-> "", salience |-> 0,
                 embedOk |-> TRUE, entities |-> <<"e1">>]
        req == [memoryID |-> db.nextMem, content |-> c]
        submit == IF llm /\ u # "" THEN SubmitOutcome(reclassCh, chClosed) ELSE "none"
    IN  /\ panicked = ""
        /\ storeOpen
        /\ submit # "panic"
        /\ pending = <<>>
        /\ db.nextMem <= MaxMemIds
        /\ \E d \in AddOutcomes(db, fkOn, now, opts, defaultMaxMemories) :
               /\ db' = d
               /\ call' = [op |-> "add", user |-> u, pre |-> db, post |-> d,
                           id |-> IF u = "" THEN 0 ELSE db.nextMem, err |-> FALSE,
                           queue |-> reclassCh, submit |-> submit, results |-> <<>>]
        /\ opLog' = Log("add", FALSE, FALSE, db' # db)
        /\ reclassCh' = IF submit = "sent" THEN Append(reclassCh, req) ELSE reclassCh
        /\ accepted' = IF submit = "sent" THEN accepted \cup {req} ELSE accepted
        /\ dropped' = IF submit = "dropped" THEN dropped \cup {req} ELSE dropped
        /\ UNCHANGED <<fkOn, now, results, resLimit, resLeftOut, pending, sweeps>>
        /\ UNCHANGED <<chClosed, doneClosed, workerPc, processed, workerReq, panicked,
                       closePc, storeOpen, decayPc, decayCancelled, decayTick, reflectPc,
                       reflectCancelled, reflectTick>>
        /\ UNCHANGED <<addVars, txVars, reflVars, lastVerdict, ops>>

\* a caller's Engram.Search(query, userID, limit, nil), or, withOptions,
\* Engram.SearchWithOptions with no filter set: up to the returned list; the
\* reinforcement loop follows as Reinforce steps
SearchReturns(q, u, limit, withOptions) ==
    LET opts == [query |-> q, user |-> u, limit |-> limit, after |-> NoTime,
                 before |-> NoTime, sectors |-> {}]
        outcomes ==
            IF u = "" THEN {[results |-> <<>>, leftOut |-> {}, ranked |-> <<>>,
                             linked |-> <<>>]}
            ELSE IF withOptions
            THEN SearchWithOptionsOutcomes(db, now, opts, DefaultSectorWeights)
            ELSE SearchOutcomes(db, now, q, u, limit, DefaultSectorWeights)
    IN  /\ pending = <<>>
        /\ ConnFree
        /\ \A i \in ScoredCandidates(db, u) : db.mem[i].access < MaxAccess
        /\ \E o \in outcomes :
               /\ results' = o.results
               /\ resLeftOut' = o.leftOut
               /\ pending' = o.results
               /\ call' = [op |-> "search", user |-> u, pre |-> db, post |-> db,
                           id |-> 0, err |-> FALSE, queue |-> reclassCh,
                           submit |-> "none", results |-> o.results,
                           ranked |-> o.ranked, leftOut |-> o.leftOut,
                           linked |-> o.linked, limit |-> EffectiveLimit(limit)]
        /\ resLimit' = EffectiveLimit(limit)
        /\ opLog' = Log(IF withOptions THEN "searchopts" ELSE "search", FALSE, FALSE, FALSE)
        /\ UNCHANGED <<db, fkOn, now, sweeps>>
        /\ UNCHANGED lifeVars
        /\ UNCHANGED <<addVars, txVars, reflVars, lastVerdict, ops>>

NextFacade ==
    \/ \E u \in {"", "u1"} : AddWithOptionsReturns(u, "c1", TRUE)
    \/ \E u \in {"", "u1"}, limit \in LimitInputs, withOptions \in BOOLEAN :
          SearchReturns("c1", u, limit, withOptions)
    \/ Reinforce
    \/ Tick

SpecFacade == Init /\ [][NextFacade]_vars

----------------------------------------------------------------------------
(* The heuristic classifier. A text is represented by the number of each   *)
(* sector's signals it contains.                                           *)

\* HeuristicClassifier.heuristicClassify: every signal found adds 0.3 to its
\* sector's score (in tenths here); `for sector, score := range scores`
\* visits the map in an order the runtime picks anew on every call, and
\* `score > bestScore` keeps the first sector visited among the highest.
\* Every outcome: [sector, confidence].
heuristicClassify(counts) ==
    LET scores == [x \in Sectors |-> 3 * counts[x]]
        best == CHOOSE b \in {scores[x] : x \in Sectors} : \A x \in Sectors : scores[x] <= b
        Winner(order) ==
            IF best = 0 THEN "semantic"
            ELSE order[CHOOSE k \in 1..Len(order) :
                          /\ scores[order[k]] = best
                          /\ \A j \in 1..(k - 1) : scores[order[j]] < best]
    IN  {[sector |-> Winner(order), confidence |-> Min(best, 10)] : order \in Perms(Sectors)}

\* a caller's heuristicClassify(content)
HeuristicClassifyReturns(counts) ==
    /\ \E o \in heuristicClassify(counts) :
           call' = [op |-> "classify", counts |-> counts, sector |-> o.sector,
                    confidence |-> o.confidence]
    /\ UNCHANGED <<storeVars, lifeVars, addVars, txVars, reflVars, lastVerdict, ops>>

\* each run classifies one text
NextClassify ==
    /\ call.op = "none"
    /\ \E counts \in [Sectors -> 0..MaxSignals] : HeuristicClassifyReturns(counts)

SpecClassify == Init /\ [][NextClassify]_vars

----------------------------------------------------------------------------
(* The waypoint graph shared by two users: each stores memories that name  *)
(* the same entities, then one call looks at the graph or searches.        *)

\* what the users store: memories like the query naming e1, or e1 and e2,
\* with and without a vector (the embedding call failed), and memories of
\* high salience unlike the query
WaypointAddInputs ==
    {[user |-> u, content |-> "c1", salience |-> 0, entities |-> ents, embedOk |-> ok] :
        u \in Users, ents \in {<<"e1">>, <<"e1", "e2">>}, ok \in BOOLEAN}
    \cup {[user |-> "u1", content |-> "c2", salience |-> sal, entities |-> <<"e1">>,
            embedOk |-> TRUE] : sal \in {700, 900}}

\* ExpandViaWaypoints(store, seedMemories, userID) as Search calls it: the
\* seeds are memories of the user that have a vector
ExpandReturns(seeds, u) ==
    /\ call' = [op |-> "expand", pre |-> db, post |-> db, seeds |-> seeds, user |-> u,
                weights |-> ExpandViaWaypoints(db, seeds, u)]
    /\ UNCHANGED <<storeVars, lifeVars, addVars, txVars, reflVars, lastVerdict, ops>>

NextWaypoints ==
    \/ /\ call.op = "none"
       /\ \E in \in WaypointAddInputs :
              AddWithOptions(in.user, in.content, in.salience, in.embedOk, in.entities,
                             defaultMaxMemories, FALSE)
    \/ /\ call.op = "none"
       /\ \E u \in Users : \E seeds \in SUBSET ScoredCandidates(db, u) :
              ExpandReturns(seeds, u)
    \/ /\ call.op = "none"
       /\ \E u \in Users, limit \in LimitInputs, withOptions \in BOOLEAN :
              SearchReturns("c1", u, limit, withOptions)
    \/ Reinforce

SpecWaypoints == Init /\ [][NextWaypoints]_vars

----------------------------------------------------------------------------
(* Close called more than once on an engine with the LLM classifier *)

\* Engram.Close has returned and a caller calls it again
CloseAgain ==
    /\ panicked = ""
    /\ closePc = "closed"
    /\ closePc' = "none"
    /\ UNCHANGED storeVars
    /\ UNCHANGED <<reclassCh, chClosed, doneClosed, workerPc, accepted, processed, dropped,
                   workerReq, panicked, storeOpen, decayPc, decayCancelled, decayTick,
                   reflectPc, reflectCancelled, reflectTick>>
    /\ UNCHANGED concVars

\* one caller adding memories, the reclassification worker, and Close calls
\* one after the other
NextClose ==
    \/ AddWithOptions("u1", "c1", 0, TRUE, <<>>, defaultMaxMemories, TRUE)
    \/ WorkerReceive
    \/ WorkerReclassify
    \/ WorkerExit
    \/ CloseCancelDecay
    \/ CloseCancelReflect
    \/ CloseChannel
    \/ CloseWaitDone
    \/ CloseStore
    \/ CloseAgain

SpecClose == Init /\ [][NextClose]_vars

----------------------------------------------------------------------------
(* Decay and reinforcement of one user's memories over time *)

\* what the caller passes as AddOptions.Salience here: unset, above the
\* documented range, and negative
DecaySaliences == {0, 1500, 0 - 50}

\* the sweep's statements that fail here: an UPDATE or a DELETE of one row,
\* whose error the loop drops
DecayFaults(d, minScore, rates, t) ==
    {f \in SweepFaults(d, minScore, rates, t) :
        f.step \in {"none", "update", "delete"}}

\* adds of every salience under a per-user cap, searches whose result is
\* reinforced, the decay worker's sweeps with and without failing statements,
\* and time passing
NextDecay ==
    \/ \E sal \in DecaySaliences :
          AddWithOptions("u1", "c1", sal, TRUE, <<>>, MaxMemoriesPerUser, FALSE)
    \/ Search("c1", "u1", 1)
    \/ Reinforce
    \/ \E f \in DecayFaults(db, defaultMinDecayScore, DefaultDecayRates, now) : DecaySweep(f)
    \/ Tick

SpecDecay == Init /\ [][NextDecay]_vars

----------------------------------------------------------------------------
(* Claims about Search, under SpecSearch *)

\* C1: with effective limit L (5 when the caller's limit is <= 0) Search
\* returns at most L entries, also when high-salience memories were injected.
C1_ResultWithinLimit == Len(results) <= resLimit

\* a search whose top-L left high-salience memories out, so that the injection
\* loop ran on a full result
C1_InjectedIntoFullResult ==
    /\ resLeftOut # {}
    /\ Len(results) = resLimit
    /\ \E i \in resLeftOut : i \in Range(results)

\* the high-salience memories the top-L left out, in the state Search returns
\* in (no ReinforceSalience of step 7 has run yet)
LeftOutAtReturn == IF pending = results THEN resLeftOut ELSE {}

IsHighest(i, S) == \A j \in S : db.mem[j].salience <= db.mem[i].salience

\* C2: when k >= 1 embedded memories with salience >= 0.6 are left out of the
\* top-limit, the result contains the highest-salience one of them, and also
\* the second-highest when k >= 2 and limit >= 2.
C2_HighestLeftOutReturned ==
    LET S == LeftOutAtReturn
    IN  /\ S # {} => \E i \in S : IsHighest(i, S) /\ i \in Range(results)
        /\ (Cardinality(S) >= 2 /\ resLimit >= 2) =>
              \E i \in S : \E j \in S \ {i} :
                  /\ IsHighest(i, S) /\ IsHighest(j, S \ {i})
                  /\ {i, j} \subseteq Range(results)

----------------------------------------------------------------------------
(* Claims about shutdown, under SpecLife *)

\* C5: a SubmitForReclassification made after the classifier's Close (also
\* the one AddWithOptions makes while Engram.Close runs) is ignored: it
\* returns normally, enqueues nothing and raises no panic.
C5_SubmitAfterCloseIgnored ==
    [][chClosed => (Len(reclassCh') <= Len(reclassCh) /\ panicked' = panicked)]_vars

\* C6: LLMClassifier.Close returns only after the worker has processed every
\* request the queue accepted and has exited; Engram.Close closes the store
\* only after that.
C6_CloseWaitsForDrain ==
    (closePc \in {"closeStore", "closed"} \/ ~storeOpen) =>
        /\ workerPc = "exited"
        /\ doneClosed
        /\ reclassCh = <<>>
        /\ workerReq = NoRequest
        /\ accepted \subseteq processed

\* Close returned and the store is closed after a shutdown that found
\* requests in the queue
C6_ClosedAfterDrain ==
    /\ closePc = "closed"
    /\ ~storeOpen
    /\ Cardinality(accepted) >= 2
    /\ dropped # {}

\* C7: once Engram.Close has cancelled the background workers, no decay sweep
\* and no reflection cycle starts, also when a tick is already pending.
C7_NoStartAfterCancel ==
    [][(decayCancelled /\ reflectCancelled) =>
          /\ ~(decayPc = "select" /\ decayPc' = "sweeping")
          /\ ~(reflectPc = "select" /\ reflectPc' = "cycle")]_vars

----------------------------------------------------------------------------
(* Claims about the store and the write paths, under Spec *)

\* C3: after every completed call that creates memories (AddWithOptions,
\* Reflect), each user's number of stored memories is at most
\* max_memories_per_user.
C3_CountWithinCap ==
    \A u \in Users : Cardinality(UserMemIds(db, u)) <= MaxMemoriesPerUser

\* C4: every stored memory has 0 <= salience <= 1 and 0 <= decay_score <= 1,
\* whatever saliences callers and the reflection provider pass.
C4_ScoresInUnitRange ==
    \A i \in MemIds(db) :
        /\ 0 <= db.mem[i].salience /\ db.mem[i].salience <= 1000
        /\ 0 <= db.mem[i].decay /\ db.mem[i].decay <= 1000

\* C8: RunDecaySweep is all-or-nothing: when one of its statements fails, the
\* sweep returns an error and the database is as it was before the sweep.
C8_SweepAllOrNothing ==
    (opLog.op = "sweep" /\ opLog.failed) => (opLog.err /\ ~opLog.changed)

\* C9: immediately after a RunDecaySweep(min_score, rates) commits, no stored
\* memory has decay_score < min_score.
C9_NoneBelowMinScore ==
    (opLog.op = "sweep" /\ ~opLog.err) =>
        \A i \in MemIds(db) : db.mem[i].decay >= defaultMinDecayScore

\* C10: every vector's memory_id names an existing memory, and every
\* association's memory_id and waypoint_id name an existing memory and an
\* existing waypoint.
C10_ReferentialIntegrity ==
    /\ \A v \in db.vec : v.memory_id \in MemIds(db)
    /\ \A a \in db.assoc : a.memory_id \in MemIds(db) /\ a.waypoint_id \in WpIds(db)

\* C11: immediately after a decay sweep commits, every waypoint is referenced
\* by at least one association.
C11_NoOrphanWaypoints ==
    (opLog.op = "sweep" /\ ~opLog.err) => OrphanWaypoints(db) = {}

----------------------------------------------------------------------------
(* Claims about the reclassification queue, under SpecLife *)

\* no dropped request was queued, is being processed or was processed, and
\* the memory it names still has the sector the heuristic gave its content
C12_DroppedUntouched ==
    \A r \in dropped :
        /\ r \notin accepted \cup processed \cup Range(reclassCh)
        /\ workerReq # r
        /\ r.memoryID \in MemIds(db) => db.mem[r.memoryID].sector = Classify(r.content)

\* C12: SubmitForReclassification never blocks: on a full queue (64 pending
\* requests; reclassBufferSize here) the request is dropped and the queue is
\* unchanged, the queue never holds more than its capacity, and the dropped
\* memory's sector is never changed by that request.
C12_FullQueueDrops ==
    [][/\ Len(reclassCh') <= reclassBufferSize
       /\ dropped' # dropped =>
             (Len(reclassCh) = reclassBufferSize /\ reclassCh' = reclassCh)
       /\ C12_DroppedUntouched']_vars

\* a request was dropped on the full queue, the worker has since reclassified
\* another memory, and the dropped memory is still stored
C12_DroppedWhileOthersReclassified ==
    /\ \E r \in dropped : r.memoryID \in MemIds(db)
    /\ \E i \in MemIds(db) : db.mem[i].sector # Classify(db.mem[i].content)

\* C13: for every memory that has a vector row, the memory's sector equals
\* the vector row's sector; a sector update changes both together.
C13_VectorSectorMatches ==
    \A v \in db.vec :
        v.memory_id \in MemIds(db) => v.sector = db.mem[v.memory_id].sector

\* a memory with a vector whose sector the worker has changed from the
\* heuristic one
C13_ReclassifiedWithVector ==
    \E v \in db.vec :
        /\ v.memory_id \in MemIds(db)
        /\ db.mem[v.memory_id].sector # Classify(db.mem[v.memory_id].content)
        /\ v.memory_id \in {r.memoryID : r \in processed}

\* C14: when the worker processes a request (m, content): if the LLM call
\* succeeds with a sector s different from the heuristic sector of content,
\* m's stored sector and its vector's sector become s; if the call fails or
\* returns the heuristic sector, m's stored sector is left unchanged.
C14_ReclassifyOutcome ==
    [][processed' # processed =>
          LET m == workerReq.memoryID
              h == Classify(workerReq.content)
              s == lastVerdict'
          IN  m \in MemIds(db) =>
                 /\ m \in MemIds(db')
                 /\ IF s # "error" /\ s # h
                    THEN /\ db'.mem[m].sector = s
                         /\ \A v \in db'.vec : v.memory_id = m => v.sector = s
                    ELSE db'.mem[m].sector = db.mem[m].sector]_vars

\* the worker has processed two requests: one memory (with its vector) now
\* has the LLM's sector, the other kept the heuristic one
C14_OneChangedOneKept ==
    \E r1 \in processed : \E r2 \in processed \ {r1} :
        /\ {r1.memoryID, r2.memoryID} \subseteq MemIds(db)
        /\ db.mem[r1.memoryID].sector = "episodic"
        /\ \E v \in db.vec : v.memory_id = r1.memoryID /\ v.sector = "episodic"
        /\ db.mem[r2.memoryID].sector = Classify(r2.content)
        /\ lastVerdict \in {"error", Classify(r2.content)}

----------------------------------------------------------------------------
(* Claims about concurrent callers, under SpecConc *)

\* memory m has no vector row in database d
NoVectorOf(d, m) == \A v \in d.vec : v.memory_id # m

\* C15: within one AddWithOptions the memory row is inserted before its
\* vector row, and the reclassification request for the memory is submitted
\* only after the vector row: whenever a vector row is inserted, its memory
\* row was inserted earlier and no request for that memory has been submitted.
\* (A sweep's rollback brings rows back; it inserts none.)
C15_MemoryVectorSubmitOrder ==
    [][\A v \in db'.vec :
          (NoVectorOf(db, v.memory_id) /\ sweepPc' = sweepPc) =>
              /\ v.memory_id < db.nextMem
              /\ \A r \in accepted \cup dropped : r.memoryID # v.memory_id]_vars

\* the worker has already given a memory and its vector the LLM's sector
\* while the AddWithOptions that stored it is still running its later steps
C15_ReclassifiedDuringAdd ==
    \E c \in Callers :
        /\ addPc[c] \in {"upsert", "assoc", "count"}
        /\ addLocal[c].memID \in MemIds(db)
        /\ db.mem[addLocal[c].memID].sector = "episodic"
        /\ \E v \in db.vec : v.memory_id = addLocal[c].memID /\ v.sector = "episodic"

\* caller c is between cm.mu.Lock() and cm.mu.Unlock()
InStoreSteps(c) == addPc[c] \notin {"idle", "lock"}

\* C17: concurrent AddWithOptions calls are mutually exclusive: while one
\* caller is in its store steps (insert memory, insert vector, upsert
\* waypoints, insert associations, enforce cap) no other caller is in its own.
C17_AddsExclusive ==
    \A c1 \in Callers : \A c2 \in Callers :
        (InStoreSteps(c1) /\ InStoreSteps(c2)) => (c1 = c2 /\ mu = c1)

\* one caller is in its store steps while the other waits for cm.mu
C17_OneInsideOneWaiting ==
    \E c1 \in Callers : \E c2 \in Callers \ {c1} :
        /\ addPc[c1] \in {"insertVector", "upsert", "assoc", "count", "delete"}
        /\ addPc[c2] = "lock"

\* C18: between the begin and the commit (or rollback) of a decay sweep the
\* database changes only by the sweep's own statements, and the sweep reads
\* and plans on the database as it was when its transaction began.
C18_SweepIsolated ==
    [][conn = "sweep" =>
          /\ db' # db => sweepPc' # sweepPc
          /\ sweepPc \in {"query", "apply"} => db = sweepPlan.snap]_vars

\* a sweep has written and not yet committed while an AddWithOptions, between
\* two of its statements, waits for the connection
C18_WriterWaitsForSweep ==
    /\ conn = "sweep"
    /\ sweepPc = "commit"
    /\ db # sweepPlan.snap
    /\ \E c \in Callers : addPc[c] \in {"insertVector", "upsert", "assoc", "delete"}

----------------------------------------------------------------------------
(* Claims about the reinforcement of search results, under SpecSearch *)

\* seq lists no element twice
NoDuplicates(seq) == \A i \in 1..Len(seq) : \A j \in 1..Len(seq) : seq[i] = seq[j] => i = j

\* C16: within one Search no ReinforceSalience is issued before ranking and
\* high-salience injection have produced the final list (the search returns
\* its list with the database untouched and the whole list still to
\* reinforce); then exactly the memories of the returned list are reinforced
\* with boost 0.15, once each (each reinforcement is of the next memory of the
\* list, and a stored memory changes in no other way).
C16_ReinforceReturnedOnce ==
    [][/\ (pending = <<>> /\ pending' # <<>>) =>
             (db' = db /\ pending' = results' /\ NoDuplicates(results'))
       /\ pending # <<>> =>
             (results' = results /\ pending' \in {pending, Tail(pending)})
       /\ pending' = <<>> => results' = results
       /\ \A i \in MemIds(db) \cap MemIds(db') :
             db'.mem[i] # db.mem[i] =>
                 /\ pending # <<>> /\ i = Head(pending) /\ pending' = Tail(pending)
                 /\ i \in Range(results) /\ results' = results
                 /\ db'.mem[i] = [db.mem[i] EXCEPT
                        !.salience = Min(db.mem[i].salience + searchBoost, 1000),
                        !.decay = Min(db.mem[i].decay + searchBoost, 1000),
                        !.last = now,
                        !.access = db.mem[i].access + 1]]_vars

\* a search whose list holds an injected memory has finished reinforcing:
\* every returned memory was accessed, a memory left out of the list was not
C16_ReturnedReinforcedOthersNot ==
    /\ pending = <<>>
    /\ results # <<>>
    /\ \E i \in resLeftOut : i \in Range(results)
    /\ \A i \in Range(results) : i \in MemIds(db) /\ db.mem[i].access = 1
    /\ \E i \in ScoredCandidates(db, "u1") \ Range(results) : db.mem[i].access = 0

----------------------------------------------------------------------------
(* Claims about the memories Reflect stores, under SpecReflect *)

\* C19: every memory persisted by Reflect has sector = reflective and
\* 0.7 <= salience <= 1.0, whatever salience the provider returned.
C19_ReflectionSalienceFloor ==
    \A e \in reflLog :
        e.mid \in MemIds(db) =>
            /\ db.mem[e.mid].sector = SectorReflective
            /\ reflectDefaultSalience <= db.mem[e.mid].salience
            /\ db.mem[e.mid].salience <= 1000

----------------------------------------------------------------------------
(* Claims about Reflect as its caller sees it, under SpecReflectCalls *)

\* the vectors of the reflective memories user u has in database d
ReflectiveRowsWithVector(d, u) ==
    {v \in d.vec : /\ v.memory_id \in MemIds(d)
                   /\ d.mem[v.memory_id].user = u
                   /\ d.mem[v.memory_id].sector = "reflective"}

\* candidate c has an embedding closer than 0.85 to a reflective memory of u
CloserThanThreshold(d, u, c) ==
    /\ c.embedOk
    /\ \E v \in ReflectiveRowsWithVector(d, u) :
           CosineSimilarity(Embed(c.content), v.vector) > 850

\* C21: a Reflect call whose provider answered stores, in order, exactly the
\* candidates whose embedding has no cosine similarity above 0.85 to the
\* vector of a reflective memory the user had before the call; a candidate at
\* exactly 0.85 or lower is stored, one above it is dropped.
C21_DuplicatesDropped ==
    (call.op = "reflect" /\ call.called /\ ~call.err) =>
        LET u == call.opts.user
            kept == SelectSeq(call.reflector.reflections,
                              LAMBDA c : ~CloserThanThreshold(call.pre, u, c))
        IN  /\ call.stored = kept
            /\ call.post.nextMem = call.pre.nextMem + Len(kept)
            /\ \A k \in 1..Len(kept) :
                   LET m == call.post.mem[call.pre.nextMem + k - 1]
                   IN  /\ m.content = kept[k].content
                       /\ m.user = u
                       /\ m.sector = "reflective"

\* a call with a candidate at exactly 0.85 and one at 0.863 from an earlier
\* reflection: the first was stored, the second dropped
C21_AtThresholdKeptAboveDropped ==
    /\ call.op = "reflect"
    /\ \E v \in ReflectiveRowsWithVector(call.pre, "u1") : v.vector = Embed("c1")
    /\ call.reflector.reflections = <<Candidate("c4", TRUE), Candidate("c5", TRUE)>>
    /\ CosineSimilarity(Embed("c4"), Embed("c1")) = 850
    /\ call.stored = <<Candidate("c4", TRUE)>>

\* the sets of rows a Reflect call may have loaded as the user's most recent
\* memories: MemoryWindow of them (50 when unset), in the requested sectors
WindowsOf(c) ==
    GetRecentMemories(c.pre, c.opts.user,
                      IF c.opts.window <= 0 THEN 50 ELSE c.opts.window, c.opts.sectors)

NonReflective(d, R) == {i \in R : d.mem[i].sector # "reflective"}

\* C22: when fewer than min_memories (5 when unset) non-reflective memories
\* are among the user's memory_window most recent memories, Reflect returns
\* an empty result and no error, does not call the provider and leaves the
\* store as it was.
C22_TooFewReturnsEmpty ==
    (/\ call.op = "reflect"
     /\ call.reflector.configured
     /\ \A R \in WindowsOf(call) :
            Cardinality(NonReflective(call.pre, R)) <
                (IF call.opts.minMemories <= 0 THEN 5 ELSE call.opts.minMemories))
    => /\ ~call.err
       /\ ~call.called
       /\ call.stored = <<>>
       /\ call.post = call.pre

\* a call that loaded as many memories as min_memories asks for, one of
\* them a reflection, with a provider ready to answer
C22_EnoughRowsTooFewNonReflective ==
    /\ call.op = "reflect"
    /\ call.opts.minMemories = 2
    /\ call.reflector.reflections # <<>>
    /\ \A R \in WindowsOf(call) :
           /\ Cardinality(R) >= 2
           /\ Cardinality(NonReflective(call.pre, R)) = 1
    /\ ~call.called
    /\ call.post = call.pre

\* C23: Reflect returns an error and leaves the store unchanged (no memory,
\* vector, waypoint or association written) when no reflection provider is
\* configured, and when the provider it called returns an error.
C23_ProviderErrorsSurfaced ==
    (call.op = "reflect" /\ (~call.reflector.configured \/ call.reflector.err)) =>
        /\ call.post = call.pre
        /\ call.stored = <<>>
        /\ ~call.reflector.configured => (call.err /\ ~call.called)
        /\ call.called => call.err

\* a user with enough memories whose provider was called and failed
C23_ProviderCalledAndFailed ==
    /\ call.op = "reflect"
    /\ call.reflector.err
    /\ call.called
    /\ call.input # {}
    /\ call.err

\* C24: the memories Reflect passes to the provider are exactly the
\* non-reflective ones among the user's memory_window most recent memories
\* in the requested sectors; no reflective memory is ever passed.
C24_ProviderSeesNoReflections ==
    (call.op = "reflect" /\ call.called) =>
        /\ \A i \in call.input :
               /\ i \in MemIds(call.pre)
               /\ call.pre.mem[i].user = call.opts.user
               /\ call.pre.mem[i].sector # "reflective"
               /\ call.opts.sectors # {} => call.pre.mem[i].sector \in call.opts.sectors
        /\ \E R \in WindowsOf(call) : call.input = NonReflective(call.pre, R)

\* a provider called for a user whose recent memories hold a reflection
C24_ReflectionInWindowLeftOut ==
    /\ call.op = "reflect"
    /\ call.called
    /\ call.input # {}
    /\ \A R \in WindowsOf(call) : NonReflective(call.pre, R) # R

----------------------------------------------------------------------------
(* Claims about the Store's methods, under SpecStoreCalls *)

\* C25: ReinforceSalience(m, boost) on an existing memory m sets salience to
\* min(salience + boost, 1), decay_score to min(decay_score + boost, 1),
\* last_accessed_at to now and access_count to access_count + 1, and changes
\* nothing else.
C25_ReinforceSetsRow ==
    (call.op = "reinforce" /\ call.mid \in MemIds(call.pre)) =>
        LET old == call.pre.mem[call.mid]
            new == call.post.mem[call.mid]
        IN  /\ new.salience = (IF old.salience + call.boost < 1000
                                THEN old.salience + call.boost ELSE 1000)
            /\ new.decay = (IF old.decay + call.boost < 1000
                             THEN old.decay + call.boost ELSE 1000)
            /\ new.last = call.at
            /\ new.access = old.access + 1
            /\ call.post = [call.pre EXCEPT !.mem[call.mid] = new]
            /\ new = [old EXCEPT !.salience = new.salience, !.decay = new.decay,
                                 !.last = new.last, !.access = new.access]

\* a reinforcement that capped the salience at 1 and raised a decay_score
\* the sweep had lowered, without capping it
C25_SalienceCappedDecayRaised ==
    /\ call.op = "reinforce"
    /\ call.mid \in MemIds(call.pre)
    /\ call.boost > 0
    /\ call.pre.mem[call.mid].decay < call.pre.mem[call.mid].salience
    /\ call.pre.mem[call.mid].salience + call.boost > 1000
    /\ call.post.mem[call.mid].salience = 1000
    /\ call.post.mem[call.mid].decay < 1000
    /\ call.pre.mem[call.mid].last < call.at

\* C26: EnforceMemoryLimit(u, cap) with count(u) > cap deletes exactly
\* count(u) - cap memories of u and leaves cap of them; every deleted one
\* comes no later than every kept one in (decay_score, created_at) ascending
\* order; no other row changes. With count(u) <= cap it deletes nothing.
C26_EnforceDeletesLowest ==
    call.op = "enforce" =>
        LET mine == UserMemIds(call.pre, call.user)
            deleted == MemIds(call.pre) \ MemIds(call.post)
            Key(i) == <<call.pre.mem[i].decay, call.pre.mem[i].created>>
        IN  /\ Cardinality(mine) <= call.maxCount => call.post = call.pre
            /\ Cardinality(mine) > call.maxCount =>
                   /\ deleted \subseteq mine
                   /\ Cardinality(deleted) = Cardinality(mine) - call.maxCount
                   /\ Cardinality(UserMemIds(call.post, call.user)) = call.maxCount
                   /\ \A i \in deleted, j \in mine \ deleted :
                          \/ Key(i)[1] < Key(j)[1]
                          \/ Key(i)[1] = Key(j)[1] /\ Key(i)[2] <= Key(j)[2]
            /\ MemIds(call.post) \subseteq MemIds(call.pre)
            /\ \A j \in MemIds(call.post) : call.post.mem[j] = call.pre.mem[j]

\* an enforcement that chose between two memories of equal decay_score by
\* their age, on a database that also holds another user's memory
C26_OlderOfEqualScoresDeleted ==
    /\ call.op = "enforce"
    /\ \E i \in MemIds(call.pre) \ MemIds(call.post), j \in UserMemIds(call.post, call.user) :
           /\ call.pre.mem[i].decay = call.pre.mem[j].decay
           /\ call.pre.mem[i].created < call.pre.mem[j].created
    /\ \E k \in MemIds(call.post) : call.post.mem[k].user # call.user

\* the (m, w) rows of the associations table
AssocRows(d, m, w) == {a \in d.assoc : a.memory_id = m /\ a.waypoint_id = w}

\* C27: InsertAssociation calls in a row for one memory m and waypoint w,
\* both existing, succeed and leave exactly one (m, w) row; its weight is
\* the maximum of the inserted weights and of the weight the row had
\* before, whatever the order: (m, w, a) then (m, w, b) on a database
\* without the row gives max(a, b). No other row changes.
C27_AssociationKeepsMaximum ==
    (/\ call.op = "assoc"
     /\ \A c \in Range(call.calls) :
            /\ c.mid = call.calls[1].mid /\ c.wid = call.calls[1].wid
            /\ c.mid \in MemIds(call.pre) /\ c.wid \in WpIds(call.pre))
    => LET m == call.calls[1].mid
           w == call.calls[1].wid
           weights == {c.weight : c \in Range(call.calls)}
                      \cup {a.weight : a \in AssocRows(call.pre, m, w)}
       IN  /\ \A c \in Range(call.calls) : ~c.err
           /\ Cardinality(AssocRows(call.post, m, w)) = 1
           /\ \A a \in AssocRows(call.post, m, w) :
                  /\ a.weight \in weights
                  /\ \A x \in weights : a.weight >= x
           /\ call.post.assoc \ AssocRows(call.post, m, w)
                  = call.pre.assoc \ AssocRows(call.pre, m, w)
           /\ call.post = [call.pre EXCEPT !.assoc = call.post.assoc]

\* (m, w, 0.7) then (m, w, 0.3) on a database without the row: one row of
\* weight 0.7, the later and lower weight did not replace it
C27_LowerSecondWeightIgnored ==
    /\ call.op = "assoc"
    /\ Len(call.calls) = 2
    /\ call.calls[1] = [mid |-> 1, wid |-> 2, weight |-> 700, err |-> FALSE]
    /\ call.calls[2] = [mid |-> 1, wid |-> 2, weight |-> 300, err |-> FALSE]
    /\ AssocRows(call.pre, 1, 2) = {}
    /\ AssocRows(call.post, 1, 2) = {[memory_id |-> 1, waypoint_id |-> 2, weight |-> 700]}

\* C28: InsertVector(mem_id, ...) returns an error and stores no vector row
\* when no memory with id mem_id exists, whether it never existed or was
\* deleted by a sweep or by cap enforcement.
C28_VectorNeedsMemory ==
    (call.op = "vector" /\ call.mid \notin MemIds(call.pre)) =>
        /\ call.err
        /\ call.post = call.pre

----------------------------------------------------------------------------
(* Claims about the heuristic classifier, under SpecClassify *)

SectorOrder == <<"episodic", "semantic", "procedural", "emotional", "reflective">>

\* C29: the heuristic classifier returns the sector with the highest keyword
\* score; among several sectors with the highest score it returns the first
\* in the order episodic, semantic, procedural, emotional, reflective, so
\* that a content always gets the same sector; with all scores zero it
\* returns semantic.
C29_TiesByFixedOrder ==
    call.op = "classify" =>
        LET highest == {x \in Sectors : \A y \in Sectors : call.counts[y] <= call.counts[x]}
            first == CHOOSE k \in 1..5 :
                        /\ SectorOrder[k] \in highest
                        /\ \A j \in 1..(k - 1) : SectorOrder[j] \notin highest
        IN  call.sector = (IF \A x \in Sectors : call.counts[x] = 0 THEN "semantic"
                           ELSE SectorOrder[first])

----------------------------------------------------------------------------
(* Claims about calls without a user id, under SpecFacade *)

\* C30: with an empty user_id AddWithOptions returns (0, nil) and Search and
\* SearchWithOptions return an empty list; the store is as it was before the
\* call (no memory, vector, waypoint or association written), nothing is
\* left to reinforce and nothing was submitted for reclassification.
C30_EmptyUserNoEffect ==
    (call.op \in {"add", "search"} /\ call.user = "") =>
        /\ call.post = call.pre
        /\ db = call.pre
        /\ pending = <<>>
        /\ reclassCh = call.queue
        /\ \A r \in accepted \cup dropped : r.memoryID < call.pre.nextMem
        /\ call.op = "add" => (call.id = 0 /\ ~call.err /\ call.submit = "none")
        /\ call.op = "search" => (call.results = <<>> /\ results = <<>>)

\* an add without a user id on an engine that holds memories and whose
\* reclassification queue has room
C30_EmptyUserAddOnFilledStore ==
    /\ call.op = "add"
    /\ call.user = ""
    /\ MemIds(call.pre) # {}
    /\ Len(call.queue) < reclassBufferSize
    /\ call.id = 0

----------------------------------------------------------------------------
(* Claims about a memory's life, under SpecConc *)

\* the statement this step runs is ReinforceSalience(i, ...)
StepReinforces(i) == pending # <<>> /\ Head(pending) = i /\ pending' = Tail(pending)
\* this step runs statements of RunDecaySweep's transaction, or ends it
StepOfSweep == sweepPc \in {"apply", "commit"} /\ sweepPc' # sweepPc
\* this step is the worker's reclassify call for memory i
StepReclassifies(i) ==
    workerPc = "reclassify" /\ workerPc' = "recv" /\ workerReq.memoryID = i
\* this step is the DELETE of EnforceMemoryLimit
StepEnforcesCap == \E c \in Callers : addPc[c] = "delete" /\ addPc'[c] = "unlock"

\* C31: a stored memory's content, user and creation time never change; its
\* salience, last access and access count change only by ReinforceSalience of
\* that memory, its decay score only by that or by the decay sweep, its sector
\* only by the reclassification update for it; a memory leaves the table only
\* by the decay sweep or by cap enforcement.
C31_MemoryFrame ==
    [][\A i \in MemIds(db) :
          IF i \in MemIds(db')
          THEN LET old == db.mem[i]
                   new == db'.mem[i]
               IN  /\ new.content = old.content
                   /\ new.user = old.user
                   /\ new.created = old.created
                   /\ (new.salience # old.salience \/ new.last # old.last
                         \/ new.access # old.access) => StepReinforces(i)
                   /\ new.decay # old.decay => StepReinforces(i) \/ StepOfSweep
                   /\ new.sector # old.sector => StepReclassifies(i)
          ELSE StepOfSweep \/ StepEnforcesCap]_vars

\* the sweep has deleted a memory, and a memory that stays has been given
\* another sector by the reclassification worker
C31_DeletedAndReclassified ==
    /\ sweepPc = "idle"
    /\ opLog.op = "sweep"
    /\ Cardinality(MemIds(db)) < db.nextMem - 1
    /\ \E i \in MemIds(db) : db.mem[i].sector # Classify(db.mem[i].content)

----------------------------------------------------------------------------
(* Claims about the waypoint graph, under SpecWaypoints *)

\* memories i and j of database d are associated with a common waypoint
ShareWaypoint(d, i, j) ==
    \E a, b \in d.assoc :
        a.memory_id = i /\ b.memory_id = j /\ a.waypoint_id = b.waypoint_id

\* C32: ExpandViaWaypoints(seeds, u) gives a weight only to memories of u
\* that are not seeds and share a waypoint with a seed, and every weight it
\* gives is 0.8, however many waypoints or seeds lead to the memory.
C32_LinkWeightsOfExpansion ==
    call.op = "expand" =>
        \A i \in DOMAIN call.weights :
            /\ i \in UserMemIds(call.pre, call.user)
            /\ i \notin call.seeds
            /\ \E s \in call.seeds : ShareWaypoint(call.pre, s, i)
            /\ call.weights[i] = linkHopWeight

\* a memory reached through two waypoints of a seed, while a memory of the
\* other user at one of these waypoints gets no weight
C32_ReachedTwiceOtherUserLeftOut ==
    /\ call.op = "expand"
    /\ \E i \in DOMAIN call.weights : \E s \in call.seeds :
          Cardinality(GetAssociatedWaypointIDs(call.pre, s)
                        \cap GetAssociatedWaypointIDs(call.pre, i)) = 2
    /\ \E j \in MemIds(call.pre) \ DOMAIN call.weights :
          /\ call.pre.mem[j].user # call.user
          /\ \E s \in call.seeds : ShareWaypoint(call.pre, s, j)

\* C33: whenever guaranteeHighSalience finds a candidate to inject, the
\* ranked list it was given holds exactly limit entries, so each injection
\* overwrites the last slot: the returned list has the same length, the same
\* entries before the last, and a candidate in the last slot.
C33_InjectionOverwritesLastSlot ==
    (call.op = "search" /\ call.leftOut # {}) =>
        /\ Len(call.ranked) = call.limit
        /\ Len(call.results) = call.limit
        /\ \A k \in 1..(call.limit - 1) : call.results[k] = call.ranked[k]
        /\ call.results[call.limit] \in call.leftOut

\* a search that found two candidates to inject into a full list
C33_TwoInjectedIntoFullList ==
    /\ call.op = "search"
    /\ Cardinality(call.leftOut) = 2
    /\ call.results # call.ranked

\* C40: a Search or SearchWithOptions for user u ranks, returns, link-weights
\* and reinforces only memories of u, also when other users' memories hang on
\* the same waypoints; while its reinforcement loop runs, salience,
\* decay_score and access_count of every other user's memory stay as they
\* were when the call began.
C40_SearchStaysWithUser ==
    call.op = "search" =>
        /\ \A i \in Range(call.results) \cup Range(call.ranked) \cup call.leftOut
                      \cup DOMAIN call.linked :
              /\ i \in MemIds(call.pre)
              /\ call.pre.mem[i].user = call.user
        /\ \A i \in MemIds(call.pre) :
              call.pre.mem[i].user # call.user =>
                  /\ i \in MemIds(db)
                  /\ db.mem[i].salience = call.pre.mem[i].salience
                  /\ db.mem[i].decay = call.pre.mem[i].decay
                  /\ db.mem[i].access = call.pre.mem[i].access
        /\ \A i \in MemIds(db) \cap MemIds(call.pre) :
              db.mem[i].access # call.pre.mem[i].access => db.mem[i].user = call.user

\* a search that gave a link weight to a memory of its user and reinforced
\* what it returned, while a memory of another user, with a vector, hangs on
\* a waypoint of a returned memory
C40_SearchedBesideOtherUser ==
    /\ call.op = "search"
    /\ pending = <<>>
    /\ call.results # <<>>
    /\ DOMAIN call.linked # {}
    /\ \A i \in Range(call.results) : db.mem[i].access > call.pre.mem[i].access
    /\ \E i \in Range(call.results), j \in MemIds(call.pre) :
          /\ call.pre.mem[j].user # call.user
          /\ HasVector(call.pre, j)
          /\ ShareWaypoint(call.pre, i, j)

----------------------------------------------------------------------------
(* Claims about an add beside the decay sweep, under SpecConc *)

\* C34: whatever the decay sweep does in between, when AddWithOptions is
\* about to return and its memory is stored, the memory is associated with
\* a stored waypoint for every one of its entities, and no association names
\* a waypoint that is gone.
C34_AddAssociatesEveryEntity ==
    /\ \A c \in Callers :
          (addPc[c] = "unlock" /\ addLocal[c].memID \in MemIds(db)) =>
              \A k \in 1..Len(AddInputs(c).entities) :
                  \E a \in db.assoc :
                      /\ a.memory_id = addLocal[c].memID
                      /\ a.waypoint_id \in WpIds(db)
                      /\ db.wp[a.waypoint_id] = AddInputs(c).entities[k]
    /\ \A a \in db.assoc : a.waypoint_id \in WpIds(db)

----------------------------------------------------------------------------
(* Claims about opening the store, under Spec *)

\* C35: on every store NewStore has opened, on a new file or on a file that
\* is already at schema version 2, the connection enforces foreign keys.
C35_ForeignKeysOnAfterOpen == db.version = 2 /\ fkOn

----------------------------------------------------------------------------
(* Claims about Close, under SpecClose *)

\* C36: a second call of Engram.Close (and of LLMClassifier.Close in it)
\* returns like the first; no call of Close ends in a panic.
C36_CloseAgainNoPanic == panicked # "close of closed channel"

----------------------------------------------------------------------------
(* Claims about deleted memories, under SpecConc *)

\* the ids the memories table has handed out whose rows are gone
GoneIds(d) == (1..(d.nextMem - 1)) \ MemIds(d)

\* C37: once the sweep or the cap has deleted a memory (and the delete is
\* committed), no later insert gets its id, and the ReinforceSalience of a
\* Search that had ranked it, or the reclassification update for it, changes
\* no memory row and creates no memory or vector row.
C37_DeletedNeverWritten ==
    [][conn = "" =>
          \A i \in GoneIds(db) :
              /\ i \notin MemIds(db')
              /\ (StepReinforces(i) \/ StepReclassifies(i)) =>
                     (db'.mem = db.mem /\ db'.vec = db.vec)]_vars

\* the reinforcement loop of a Search has run for a memory that a sweep
\* deleted after the Search had ranked it (a reinforced memory survives the
\* sweep, so the delete came first), and the worker holds the request for
\* that memory, its reclassify call about to update it
C37_ReinforcedAfterSweepDeleted ==
    /\ results # <<>>
    /\ pending = <<>>
    /\ sweepPc = "idle"
    /\ \E i \in Range(results) : i \in GoneIds(db)
    /\ workerPc = "reclassify"
    /\ workerReq.memoryID \in Range(results) \cap GoneIds(db)

----------------------------------------------------------------------------
(* Claims about duplicates among reflections, under SpecReflectCalls *)

\* reflective memories of one user in database d, stored with vectors, whose
\* vectors are closer than the duplicate threshold
AlikeReflections(d) ==
    {<<v, w>> \in d.vec \X d.vec :
        /\ v.memory_id # w.memory_id
        /\ \E u \in Users : {v, w} \subseteq ReflectiveRowsWithVector(d, u)
        /\ CosineSimilarity(v.vector, w.vector) > duplicateThreshold}

----------------------------------------------------------------------------
(* Claims about decay and reinforcement, under SpecDecay *)

\* C39: every stored memory has decay_score <= salience, whatever order
\* adds, reinforcements and sweeps come in (the sectors' decay rates and the
\* search's boost are non-negative, no row is accessed after the sweep's now).
C39_DecayScoreAtMostSalience ==
    \A i \in MemIds(db) : db.mem[i].decay <= db.mem[i].salience

\* a memory that a sweep decayed and a search then reinforced, its decay
\* score still under its salience
C39_DecayedThenReinforced ==
    /\ sweeps >= 1
    /\ pending = <<>>
    /\ \E i \in MemIds(db) :
          /\ db.mem[i].access >= 1
          /\ db.mem[i].decay < db.mem[i].salience

====
